---- MODULE Spec2Model ----
(***************************************************************************)
(* Model of the chat endpoint of the personal website: the retry/backoff   *)
(* executor (api/retry, retryWithBackoff) and the conversation-turn        *)
(* handler of api/chat.ts (first LLM call, planning, tool dispatch, one    *)
(* follow-up call, buffered or server-sent-event delivery).                *)
(*                                                                         *)
(* JavaScript strings are modelled as sequences of tokens: the token " "   *)
(* is a whitespace character, every other token is visible text.           *)
(***************************************************************************)
EXTENDS Integers, Sequences, FiniteSets, TLC

VARIABLES
    \* ---- retryWithBackoff (one activation at a time) ----
    rpc,          \* "idle" | "calling" | "sleeping" | "returned" | "threw"
    opts,         \* merged options: [maxRetries, shouldRetry]
    attempt,      \* loop variable of retryWithBackoff
    lastError,    \* lastError / the error being thrown
    result,       \* value fn() resolved with
    rlog,         \* history of the activation: "call", "fail", "fail_auth", "sleep", "return", "throw"
    raised,       \* the error the last invocation of fn() rejected with
    delay,        \* the delay being slept, in units of 1/DelayUnit ms
    \* ---- handler of api/chat.ts ----
    pc,           \* position of the handler
    req,          \* the request: method, stream flag, accept header, body, API key
    useStreaming,
    response,     \* content of the first LLM response
    followUpResponse,
    toolResults,
    planningInfo,
    finalContent,
    wire,         \* everything done to `res`, in order
    caught,       \* the error a catch block of the handler received, if any
    \* ---- the world around one request ----
    provider,     \* how the LLM provider behaves: "any"; "overloaded" (it signals overload
                  \* on the first OverloadedAttempts attempts of a call); "reliable" (it
                  \* answers every call, the first with a round of tool calls)
    chat,         \* the conversation: the client's message log, the request body made of
                  \* it, and the `messages` passed to the first and the follow-up LLM call
    \* ---- handler of api/chat.ts, continued ----
    llm,          \* LLM calls issued so far: [first, followUp] (activations of
                  \* retryWithBackoff), and the tool_result blocks sent with the follow-up
    call,         \* the tool call in progress: what process.env holds for the tool, the
                  \* remote requests sent, and the environment its case has run in
    \* ---- case get_snowboarding_data of the handler ----
    snow          \* the rows of snowboarding.csv, the input of the tool call, and the
                  \* season queried and the text assigned once the case has run

retryVars == <<rpc, opts, attempt, lastError, result, rlog, raised, delay>>
handlerVars == <<pc, req, useStreaming, response, followUpResponse, toolResults,
                 planningInfo, finalContent, wire, caught, llm, call, provider, chat, snow>>
vars == <<rpc, opts, attempt, lastError, result, rlog, raised, delay, pc, req, useStreaming,
          response, followUpResponse, toolResults, planningInfo, finalContent, wire, caught,
          llm, call, provider, chat, snow>>

\* ------------------------------------------------------------------ bounds
\* Largest retry budget a policy of the stand-alone executor is drawn with.
MaxRetriesBound == 3
\* Largest number of content blocks in one LLM response.
MaxBlocks == 2
\* Math.random() is drawn from {0, 1/RandomSteps, ..., (RandomSteps-1)/RandomSteps}.
RandomSteps == 4
\* Most messages in the client's log, and in each array of a request body.
MaxSupplied == 11
\* Most tool calls of a round when the tools of the whole catalogue are dispatched.
MaxToolCalls == 1

\* ------------------------------------------------------------------ strings
Undefined == <<"<undefined>">>
Space == " "
\* String.prototype.trim: strips leading and trailing whitespace.
RECURSIVE TrimLeft(_)
TrimLeft(s) == IF s = <<>> THEN <<>>
               ELSE IF Head(s) = Space THEN TrimLeft(Tail(s)) ELSE s
RECURSIVE TrimRight(_)
TrimRight(s) == IF s = <<>> THEN <<>>
                ELSE IF s[Len(s)] = Space THEN TrimRight(SubSeq(s, 1, Len(s) - 1)) ELSE s
trim(s) == TrimRight(TrimLeft(s))
\* JavaScript truthiness of a string-or-undefined value.
Truthy(s) == s # Undefined /\ s # <<>>

\* ------------------------------------------------------------------ errors
\* What an operation can reject with. status 0: no status field;
\* msg: the keywords the error's message contains.
NoStatus == 0
HttpStatuses == {400, 401, 403, 429, 500, 503, 529}
\* An error with an HTTP status; the provider's overload wording comes with a 5xx.
HttpErrors == [status : HttpStatuses, code : {"none"}, msg : {{}}, typeError : {FALSE}]
                 \cup [status : {500, 503, 529}, code : {"none"},
                       msg : {{"overloaded"}, {"Overloaded"}}, typeError : {FALSE}]
NetworkErrors == [status : {NoStatus}, code : {"none", "ECONNRESET", "ETIMEDOUT", "ENOTFOUND"},
                  msg : {{}, {"timeout"}, {"network"}, {"overloaded"}}, typeError : {FALSE}]
FetchTypeErrors == [status : {NoStatus}, code : {"none"}, msg : {{"fetch"}}, typeError : {TRUE}]
Errors == HttpErrors \cup NetworkErrors \cup FetchTypeErrors
\* What anthropic.messages.create rejects with: an API error carrying the HTTP
\* status, or a connection error without status (connection failed, timed out, or
\* an overload reported in the message only).
ProviderErrors ==
    [status : HttpStatuses, code : {"none"}, msg : {{}}, typeError : {FALSE}]
        \cup [status : {500}, code : {"none"}, msg : {{"overloaded"}}, typeError : {FALSE}]
        \cup [status : {NoStatus}, code : {"none"},
              msg : {{}, {"timeout"}, {"Overloaded"}}, typeError : {FALSE}]
NoError == [status |-> NoStatus, code |-> "none", msg |-> {"<no error>"}, typeError |-> FALSE]
includes(msg, word) == word \in msg

\* ------------------------------------------------------------------ retry policies
\* Mutant: every status from 400 on is taken for retryable.
DefaultShouldRetry_From400(error) ==
    IF error.typeError /\ includes(error.msg, "fetch") THEN TRUE
    ELSE IF error.status # NoStatus
         THEN error.status >= 400
         ELSE \/ error.code = "ECONNRESET"
              \/ error.code = "ETIMEDOUT"
              \/ error.code = "ENOTFOUND"
              \/ includes(error.msg, "timeout")
              \/ includes(error.msg, "network")

\* DEFAULT_OPTIONS.shouldRetry
DefaultShouldRetry(error) ==
    IF error.typeError /\ includes(error.msg, "fetch") THEN TRUE
    ELSE IF error.status # NoStatus
         THEN error.status >= 500 \/ error.status = 429 \/ error.status = 503
         ELSE \/ error.code = "ECONNRESET"
              \/ error.code = "ETIMEDOUT"
              \/ error.code = "ENOTFOUND"
              \/ includes(error.msg, "timeout")
              \/ includes(error.msg, "network")

\* shouldRetry passed by the handler to both LLM calls
OrchestratorShouldRetry(error) ==
    IF error.status = 401 \/ error.status = 403 THEN FALSE
    ELSE \/ error.status = 529
         \/ error.status >= 500
         \/ includes(error.msg, "overloaded")
         \/ includes(error.msg, "Overloaded")

\* The set of answers opts.shouldRetry(error) can give: one answer for the two
\* classifiers of the code, either answer for a caller-supplied function.
ShouldRetryAnswers(o, error) ==
    CASE o.shouldRetry = "default" -> {DefaultShouldRetry(error)}
      [] o.shouldRetry = "orchestrator" -> {OrchestratorShouldRetry(error)}
      [] OTHER -> BOOLEAN

IsAuth(error) == error.status = 401 \/ error.status = 403

\* Delay options: initialDelay and maxDelay in ms, backoffMultiplier, jitter in
\* percent (0.1 is 10). DEFAULT_OPTIONS first; then a steep backoff that reaches
\* the cap with full jitter, an initial delay above the cap, and no delay at all.
DefaultDelays == [initialDelay |-> 1000, maxDelay |-> 10000, backoffMultiplier |-> 2, jitter |-> 10]
DelayOptions ==
    {DefaultDelays,
     [initialDelay |-> 4000, maxDelay |-> 10000, backoffMultiplier |-> 3, jitter |-> 100],
     [initialDelay |-> 20000, maxDelay |-> 10000, backoffMultiplier |-> 1, jitter |-> 50],
     [initialDelay |-> 0, maxDelay |-> 0, backoffMultiplier |-> 2, jitter |-> 0]}
\* { ...DEFAULT_OPTIONS, ...options, shouldRetry: options.shouldRetry || DEFAULT_OPTIONS.shouldRetry }
MergeOptions(maxRetries, shouldRetry, delays) ==
    [maxRetries |-> maxRetries, shouldRetry |-> shouldRetry,
     initialDelay |-> delays.initialDelay, maxDelay |-> delays.maxDelay,
     backoffMultiplier |-> delays.backoffMultiplier, jitter |-> delays.jitter]
Policies == {MergeOptions(m, c, d) : m \in 0..MaxRetriesBound,
                                    c \in {"default", "orchestrator", "custom"},
                                    d \in DelayOptions}
\* maxRetries passed explicitly as undefined: the spread of the options overrides
\* the default with it, and every comparison of a number with it is false. It is
\* kept as a number outside every budget.
UndefinedBudget == 0 - 1000
\* Every options object a caller can pass: the budget may also be negative, or
\* undefined.
AnyPolicies ==
    {MergeOptions(m, c, d) : m \in ((0 - MaxRetriesBound)..MaxRetriesBound) \cup {UndefinedBudget},
                             c \in {"default", "orchestrator", "custom"},
                             d \in DelayOptions}
\* Mutant: the LLM calls are given a budget of one retry.
OrchestratorPolicy_OneRetry == MergeOptions(1, "orchestrator", DefaultDelays)
\* The options both LLM calls of the handler pass: maxRetries 3 and a classifier.
OrchestratorPolicy == MergeOptions(3, "orchestrator", DefaultDelays)
NoPolicy == MergeOptions(0, "none", DefaultDelays)

\* ------------------------------------------------------------------ calculateDelay
\* Delays are kept as integers in units of 1/DelayUnit ms: jitter is a number of
\* hundredths and Math.random() a number of RandomSteps-ths.
DelayUnit == 100 * RandomSteps
NoDelay == 0
RECURSIVE pow(_, _)
pow(b, e) == IF e <= 0 THEN 1 ELSE b * pow(b, e - 1)
min(a, b) == IF a <= b THEN a ELSE b
max(a, b) == IF a >= b THEN a ELSE b
\* Mutant: the jitter is added to the exponential delay and the cap is left out.
calculateDelay_NoCap(a, o, k) ==
    LET exponentialDelay == o.initialDelay * pow(o.backoffMultiplier, a - 1)
        jitterAmount == exponentialDelay * o.jitter * (2 * k - RandomSteps)
    IN  max(0, exponentialDelay * DelayUnit + jitterAmount)
\* calculateDelay(attempt, options) when Math.random() returns k/RandomSteps
calculateDelay(a, o, k) ==
    LET exponentialDelay == o.initialDelay * pow(o.backoffMultiplier, a - 1)
        cappedDelay == min(exponentialDelay, o.maxDelay)
        jitterAmount == cappedDelay * o.jitter * (2 * k - RandomSteps)
    IN  max(0, cappedDelay * DelayUnit + jitterAmount)

\* ------------------------------------------------------------------ LLM responses
\* A planning phrase: text the planning patterns /I'll use ... to/ match.
PlanPhrase == "I'll use the biking tool to"
\* Sample texts of a text block: empty, whitespace only, padded visible text,
\* a planning statement.
Texts == {<<>>, <<Space>>, <<Space, "Hello", Space>>, <<PlanPhrase>>}
\* tool_use blocks as the model emits them (input "missing": no input object): a
\* remote tool, a tool whose case throws, a name outside the catalogue.
ToolShapes == {<<"get_music_data", "object">>, <<"get_snowboarding_data", "missing">>,
               <<"get_weather", "object">>}
\* Every tool of the catalogue with and without an input object, and a name
\* outside the catalogue.
AllToolShapes ==
    ({"get_about_info", "get_photos_info", "get_snowboarding_data", "get_biking_data",
      "get_books_data", "get_music_data", "get_weather"} \X {"object", "missing"})
TextBlock(t) == [type |-> "text", text |-> t, name |-> "", id |-> <<0, 0>>, input |-> ""]
\* A block that is neither text nor tool_use (it has no text field).
OtherBlock == [type |-> "thinking", text |-> Undefined, name |-> "", id |-> <<0, 0>>, input |-> ""]
ToolUseBlock(s) ==
    [type |-> "tool_use", text |-> Undefined, name |-> s[1], id |-> <<0, 0>>, input |-> s[2]]
Blocks == {TextBlock(t) : t \in Texts} \cup {OtherBlock} \cup {ToolUseBlock(s) : s \in ToolShapes}
\* Of the follow-up response the handler reads only the type and the text of each
\* block: a tool_use block stands for every block without text, and the planning
\* phrase reads as any visible text.
FollowUpBlocks == {TextBlock(t) : t \in Texts \ {<<PlanPhrase>>}}
                      \cup {ToolUseBlock(<<"get_music_data", "object">>)}
BlockSeqs(alphabet) == UNION {[1..n -> alphabet] : n \in 0..MaxBlocks}
\* The provider gives every tool_use block an id of its own: <<call, position>>.
WithIds(content, callNo) ==
    [i \in DOMAIN content |->
        IF content[i].type = "tool_use" THEN [content[i] EXCEPT !.id = <<callNo, i>>]
        ELSE content[i]]
FirstResponses == {WithIds(c, 1) : c \in BlockSeqs(Blocks)}
FollowUpResponses == {WithIds(c, 2) : c \in BlockSeqs(FollowUpBlocks)}

\* A first response that asks for up to MaxToolCalls tools of any shape, and the
\* follow-up responses to it: a visible text, a blank one.
ToolRounds ==
    {WithIds(c, 1) : c \in UNION {[1..n -> {ToolUseBlock(s) : s \in AllToolShapes}]
                                     : n \in 1..MaxToolCalls}}
ToolRoundAnswers == {WithIds(<<TextBlock(t)>>, 2) : t \in {<<Space, "Hello", Space>>, <<Space>>}}

\* What fn() can resolve with: the provider's response to the call in flight.
Results ==
    CASE pc = "firstCall" -> IF provider = "reliable" THEN ToolRounds ELSE FirstResponses
      [] pc = "followUp" -> IF provider = "reliable" THEN ToolRoundAnswers ELSE FollowUpResponses
      [] OTHER -> {<<>>}
\* The provider's overload signal: status 529, or the word in the message.
OverloadSignals ==
    {e \in ProviderErrors : e.status = 529 \/ "overloaded" \in e.msg \/ "Overloaded" \in e.msg}
\* In the "overloaded" scenario the provider signals overload on this many attempts
\* of each call and answers the next one.
OverloadedAttempts == 2
\* What fn() can reject with: the provider's errors for the LLM calls of the
\* handler, any error for the operation of another caller.
Failures ==
    IF pc \in {"firstCall", "followUp"}
    THEN CASE provider = "overloaded" ->
                 IF attempt < OverloadedAttempts THEN OverloadSignals ELSE {}
           [] provider = "reliable" -> {}
           [] OTHER -> ProviderErrors
    ELSE Errors
\* Whether fn() can resolve at this attempt.
Answers == provider \in {"any", "reliable"} \/ attempt >= OverloadedAttempts

\* ------------------------------------------------------------------ retryWithBackoff
\* for (...; attempt <= opts.maxRetries; ...)
LoopContinues(a, o) == o.maxRetries # UndefinedBudget /\ a <= o.maxRetries
\* if (attempt >= opts.maxRetries) break;
Exhausted(a, o) == o.maxRetries # UndefinedBudget /\ a >= o.maxRetries
FailTag(error) == IF IsAuth(error) THEN "fail_auth" ELSE "fail"

\* State of an activation right after retryWithBackoff(fn, o) is called: options
\* merged, lastError undefined, attempt 0 and, if the loop is entered, fn() in flight.
RetryStart(o) ==
    /\ opts' = o
    /\ attempt' = 0
    /\ lastError' = NoError
    /\ result' = <<>>
    /\ rpc' = IF LoopContinues(0, o) THEN "calling" ELSE "threw"
    /\ rlog' = IF LoopContinues(0, o) THEN <<"call">> ELSE <<"throw">>
    /\ raised' = NoError
    /\ delay' = NoDelay

\* Locals of a finished activation are gone once the caller has taken its outcome.
RetryRelease ==
    /\ rpc' = "idle"
    /\ opts' = NoPolicy
    /\ attempt' = 0
    /\ lastError' = NoError
    /\ result' = <<>>
    /\ rlog' = <<>>
    /\ raised' = NoError
    /\ delay' = NoDelay

\* `return await fn()` resolves: the activation returns fn's value and its frame
\* (opts, attempt, lastError) is gone; the caller has yet to take the value.
OperationSucceeds ==
    /\ rpc = "calling"
    /\ Answers
    /\ \E r \in Results :
          /\ result' = r
          /\ rpc' = "returned"
    /\ rlog' = <<"return">>
    /\ lastError' = NoError
    /\ opts' = NoPolicy
    /\ attempt' = 0
    /\ raised' = NoError
    /\ UNCHANGED delay
    /\ UNCHANGED handlerVars

\* Mutant: on exhaustion the last error is wrapped in a new one.
Thrown_Wrapped(error, exhausted) ==
    IF exhausted
    THEN [status |-> NoStatus, code |-> "none", msg |-> {"retries exhausted"}, typeError |-> FALSE]
    ELSE error
\* What the catch block leaves in lastError for `throw lastError` (loop left by
\* `break`), and what `throw error` throws: the caught error itself.
Thrown(error, exhausted) == error

\* fn() rejects: the catch block of the loop.
OperationFails ==
    /\ rpc = "calling"
    /\ \E error \in Failures :
          /\ raised' = error
          /\ IF Exhausted(attempt, opts)
             THEN /\ lastError' = Thrown(error, TRUE)
                  /\ rpc' = "threw"
                  /\ rlog' = rlog \o <<FailTag(error), "throw">>
                  /\ UNCHANGED delay
             ELSE \E retry \in ShouldRetryAnswers(opts, error) :
                     IF retry
                     THEN /\ lastError' = error
                          /\ rpc' = "sleeping"
                          /\ rlog' = rlog \o <<FailTag(error), "sleep">>
                          /\ \E k \in 0..(RandomSteps - 1) :
                                delay' = calculateDelay(attempt + 1, opts, k)
                     ELSE /\ lastError' = Thrown(error, FALSE)
                          /\ rpc' = "threw"
                          /\ rlog' = rlog \o <<FailTag(error), "throw">>
                          /\ UNCHANGED delay
    /\ UNCHANGED <<opts, attempt, result>>
    /\ UNCHANGED handlerVars

\* Mutant: the loop does not advance its counter.
SleepElapses_NoIncrement ==
    /\ rpc = "sleeping"
    /\ rpc' = "calling"
    /\ rlog' = Append(rlog, "call")
    /\ lastError' = NoError
    /\ raised' = NoError
    /\ delay' = NoDelay
    /\ UNCHANGED <<opts, attempt, result>>
    /\ UNCHANGED handlerVars

\* sleep(delay) resolves: attempt++, loop test, next fn() (or `throw lastError`).
\* lastError is not read while fn() is in flight and the next catch reassigns it:
\* the model forgets its value (and that of the error last raised) there.
SleepElapses ==
    /\ rpc = "sleeping"
    /\ attempt' = attempt + 1
    /\ IF LoopContinues(attempt + 1, opts)
       THEN /\ rpc' = "calling"
            /\ rlog' = Append(rlog, "call")
            /\ lastError' = NoError
            /\ raised' = NoError
       ELSE /\ rpc' = "threw"
            /\ rlog' = Append(rlog, "throw")
            /\ UNCHANGED <<lastError, raised>>
    /\ delay' = NoDelay
    /\ UNCHANGED <<opts, result>>
    /\ UNCHANGED handlerVars

\* ------------------------------------------------------------------ the response object `res`
NoPlanning == [present |-> FALSE, tools |-> <<>>, reasoning |-> ""]
NoPayload == [error |-> "", message |-> Undefined, planning |-> NoPlanning, toolResults |-> <<>>]
EventLine(event) ==
    [op |-> "write", line |-> "event", event |-> event, status |-> 0, payload |-> NoPayload]
DataLine(data) ==
    [op |-> "write", line |-> "data", event |-> "", status |-> 0, payload |-> data]
\* sendSSEEvent: res.write(`event: ...`) then res.write(`data: ...`)
sendSSEEvent(w, event, data) == w \o <<EventLine(event), DataLine(data)>>
\* res.end()
resEnd(w) ==
    Append(w, [op |-> "end", line |-> "", event |-> "", status |-> 0, payload |-> NoPayload])
\* res.status(code).end()
resStatusEnd(w, code) ==
    Append(w, [op |-> "end", line |-> "", event |-> "", status |-> code, payload |-> NoPayload])
\* res.status(code).json(body)
resJson(w, code, body) ==
    Append(w, [op |-> "json", line |-> "", event |-> "", status |-> code, payload |-> body])

ErrorBody(label, message) == [NoPayload EXCEPT !.error = label, !.message = message]
MethodNotAllowed == ErrorBody("Method not allowed", Undefined)
KeyMissing == ErrorBody("ANTHROPIC_API_KEY not configured",
                        <<"Please set ANTHROPIC_API_KEY in your Vercel environment variables.">>)
EmptyResponse == ErrorBody("Empty response from Claude API",
                           <<"The AI response was empty. Please try again.">>)
ServiceUnavailable ==
    ErrorBody("Service temporarily unavailable",
              <<"The AI service is currently overloaded. Please try again in a few moments.">>)
\* message: error.message || 'An error occurred while processing your request.'
InternalError == ErrorBody("Internal server error", <<"error.message">>)
Fallback == <<"I encountered an issue processing your request. Please try again.">>

\* Mutant: every 5xx status is taken for an overload.
IsOverloadedError_Any5xx(error) ==
    \/ error.status >= 500
    \/ includes(error.msg, "overloaded")
    \/ includes(error.msg, "Overloaded")

\* The test both catch blocks of the LLM calls and the outer catch apply.
IsOverloadedError(error) ==
    \/ error.status = 529
    \/ includes(error.msg, "overloaded")
    \/ includes(error.msg, "Overloaded")

\* Mutant: the outer catch handles the overload only and re-throws the rest, which
\* leaves the handler with nothing written.
OuterCatch_Rethrow(w, streaming, error) ==
    IF IsOverloadedError(error)
    THEN IF streaming
         THEN resEnd(sendSSEEvent(w, "error", ServiceUnavailable))
         ELSE resJson(w, 503, ServiceUnavailable)
    ELSE w
\* The outer catch block of the handler.
OuterCatch(w, streaming, error) ==
    IF IsOverloadedError(error)
    THEN IF streaming
         THEN resEnd(sendSSEEvent(w, "error", ServiceUnavailable))
         ELSE resJson(w, 503, ServiceUnavailable)
    ELSE IF streaming
         THEN resEnd(sendSSEEvent(w, "error", InternalError))
         ELSE resJson(w, 500, InternalError)

\* catch (apiError) of the first LLM call; TRUE: handled here, FALSE: re-thrown.
FirstCallCatch(w, streaming, apiError) ==
    IF IsOverloadedError(apiError)
    THEN resJson(w, 503, ServiceUnavailable)
    ELSE OuterCatch(w, streaming, apiError)

\* catch (apiError) of the follow-up call.
FollowUpCatch(w, streaming, apiError) ==
    IF IsOverloadedError(apiError)
    THEN IF streaming
         THEN resEnd(sendSSEEvent(w, "error", ServiceUnavailable))
         ELSE resJson(w, 503, ServiceUnavailable)
    ELSE OuterCatch(w, streaming, apiError)

\* `followUpResponse` is not defined: the ReferenceError of reading, in the body of
\* the guard, the block-scoped `let followUpResponse` of the tool branch.
GuardReferenceError ==
    [status |-> NoStatus, code |-> "none", msg |-> {"followUpResponse is not defined"},
     typeError |-> FALSE]
Kept(fc) == [threw |-> FALSE, content |-> fc]

\* Mutant: the guard tests for the empty string only, not for whitespace.
EnsureContent_NoTrim(fc) ==
    IF ~Truthy(fc)
    THEN {Kept(Fallback), [threw |-> TRUE, content |-> fc]}
    ELSE {Kept(fc)}

\* "Ensure we always have content": the outcomes of the guard. When it fires, its
\* first statement logs `followUpResponse?.content`, a name declared with `let`
\* inside the tool branch and out of scope here: a build that keeps block scoping
\* throws a ReferenceError there (and the fallback is never assigned), a build that
\* lowers `let` to a function-scoped `var` goes on to assign the fallback.
EnsureContent(fc) ==
    IF ~Truthy(fc) \/ trim(fc) = <<>>
    THEN {Kept(Fallback), [threw |-> TRUE, content |-> fc]}
    ELSE {Kept(fc)}

\* Mutant: the streamed delivery repeats the planning trace after the response.
Deliver_PlanningAfterResponse(w, streaming, fc, tr, plan) ==
    IF streaming
    THEN resEnd(sendSSEEvent(
             sendSSEEvent(
                 sendSSEEvent(w, "response", [NoPayload EXCEPT !.message = fc, !.toolResults = tr]),
                 "planning", [NoPayload EXCEPT !.planning = plan]),
             "done", NoPayload))
    ELSE resJson(w, 200, [NoPayload EXCEPT !.message = fc, !.planning = plan, !.toolResults = tr])
\* Mutant: the streamed delivery does not end the connection.
Deliver_NoEnd(w, streaming, fc, tr, plan) ==
    IF streaming
    THEN sendSSEEvent(
             sendSSEEvent(w, "response", [NoPayload EXCEPT !.message = fc, !.toolResults = tr]),
             "done", NoPayload)
    ELSE resJson(w, 200, [NoPayload EXCEPT !.message = fc, !.planning = plan, !.toolResults = tr])

\* "Send response via SSE if streaming, otherwise use JSON"
Deliver(w, streaming, fc, tr, plan) ==
    IF streaming
    THEN resEnd(sendSSEEvent(
             sendSSEEvent(w, "response", [NoPayload EXCEPT !.message = fc, !.toolResults = tr]),
             "done", NoPayload))
    ELSE resJson(w, 200, [NoPayload EXCEPT !.message = fc, !.planning = plan, !.toolResults = tr])

\* ------------------------------------------------------------------ planning extraction
\* response.content.find(item => item.type === 'text'): index of the block, 0 if none
FirstIndex(hits) ==
    IF hits = {} THEN 0 ELSE CHOOSE i \in hits : \A j \in hits : i <= j
IsTextBlock(item) == item.type = "text"
HasText(item) == Truthy(item.text)
FindText(content) == FirstIndex({i \in DOMAIN content : IsTextBlock(content[i])})
FindAnyText(content) == FirstIndex({i \in DOMAIN content : HasText(content[i])})
IsToolUse(item) == item.type = "tool_use"
\* response.content.filter(item => item.type === 'tool_use')
ToolCallsOf(content) == SelectSeq(content, IsToolUse)
\* the planning patterns applied to a text
PlanningMatch(text) == \E i \in DOMAIN text : text[i] = PlanPhrase

\* Mutant: without tool calls any text block yields a planning trace.
ExtractPlanning_AnyText(content) ==
    LET t == FindText(content)
        toolCalls == ToolCallsOf(content)
        stated == t # 0 /\ Truthy(content[t].text) /\ PlanningMatch(content[t].text)
    IN  IF toolCalls # <<>>
        THEN [present |-> TRUE,
              tools |-> [i \in DOMAIN toolCalls |-> toolCalls[i].name],
              reasoning |-> IF stated THEN "first sentence" ELSE "synthesized"]
        ELSE IF t # 0 /\ Truthy(content[t].text)
             THEN [present |-> TRUE, tools |-> <<>>, reasoning |-> "first sentence"]
             ELSE NoPlanning
\* planningInfo as the handler derives it from the first response
ExtractPlanning(content) ==
    LET t == FindText(content)
        toolCalls == ToolCallsOf(content)
        stated == t # 0 /\ Truthy(content[t].text) /\ PlanningMatch(content[t].text)
    IN  IF toolCalls # <<>>
        THEN [present |-> TRUE,
              tools |-> [i \in DOMAIN toolCalls |-> toolCalls[i].name],
              reasoning |-> IF stated THEN "first sentence" ELSE "synthesized"]
        ELSE IF stated
             THEN [present |-> TRUE, tools |-> <<>>, reasoning |-> "first sentence"]
             ELSE NoPlanning

\* Mutant: the planning frame is not written when the plan is extracted.
EmitPlanning_Never(w, streaming, plan) == w
\* "Send planning event immediately via SSE if streaming"
EmitPlanning(w, streaming, plan) ==
    IF streaming /\ plan.present
    THEN sendSSEEvent(w, "planning", [NoPayload EXCEPT !.planning = plan])
    ELSE w

\* ------------------------------------------------------------------ tool dispatch
RemoteTools == {"get_music_data", "get_biking_data"}
\* process.env as it stands for one tool: which of the provider's four variables
\* are set (<PROVIDER>_ACCESS_TOKEN, _CLIENT_ID, _CLIENT_SECRET, _REFRESH_TOKEN).
Credentials == [accessToken : BOOLEAN, clientId : BOOLEAN, clientSecret : BOOLEAN,
                refreshToken : BOOLEAN]
NoCredentials == [accessToken |-> FALSE, clientId |-> FALSE, clientSecret |-> FALSE,
                  refreshToken |-> FALSE]
\* The variables process.env can hold for the tool named `name`: the four of a
\* remote tool, HARDCOVER_API_TOKEN for the reading tool, none for the others.
CredentialsOf(name) ==
    CASE name \in RemoteTools -> Credentials
      [] name = "get_books_data" -> {c \in Credentials : ~c.clientId /\ ~c.clientSecret
                                                           /\ ~c.refreshToken}
      [] OTHER -> {NoCredentials}
\* No tool call is in progress.
NoCall == [cred |-> NoCredentials, net |-> <<>>, env |-> "none"]
\* Remote requests of a tool call: to the OAuth token endpoint, to the data API.
TokenRequest == [to |-> "token", bearer |-> "none"]
ApiRequest(token) == [to |-> "api", bearer |-> token]

\* refreshSpotifyToken up to its first await: "exchange" when it posts to the token
\* endpoint, "null" when it returns null without a request.
refreshSpotifyToken(cred) ==
    IF ~cred.clientId \/ ~cred.clientSecret THEN "null"
    ELSE IF cred.refreshToken THEN "exchange" ELSE "null"
\* Mutant: without static token the refresh is tried whatever else is set.
SpotifyToken_NoCheck(cred) ==
    IF cred.accessToken THEN "static" ELSE "exchange"
\* accessToken of get_music_data: the static token, else the refreshed one
SpotifyToken(cred) ==
    IF cred.accessToken THEN "static"
    ELSE IF cred.clientId /\ cred.clientSecret THEN refreshSpotifyToken(cred) ELSE "null"
\* refreshStravaToken up to its first await
refreshStravaToken(cred) ==
    IF ~cred.clientId \/ ~cred.clientSecret \/ ~cred.refreshToken THEN "null" ELSE "exchange"
\* Mutant: the refresh is tried even though a static token is set.
getValidStravaToken_AlwaysRefresh(cred) ==
    IF refreshStravaToken(cred) = "exchange" THEN "exchange"
    ELSE IF cred.accessToken THEN "static" ELSE "null"
\* getValidStravaToken
getValidStravaToken(cred) ==
    IF cred.accessToken THEN "static" ELSE refreshStravaToken(cred)
\* How the tool named `name` resolves its bearer credential.
ResolveToken(name, cred) ==
    IF name = "get_music_data" THEN SpotifyToken(cred) ELSE getValidStravaToken(cred)
\* What the token endpoint can answer: a token, a non-2xx response, no response.
TokenAnswers == {"token", "not_ok", "rejected"}
\* What the data API can answer (env of the tool body).
ApiAnswers == {"ok", "http_error", "network_error"}

\* One case of the switch, inner try/catch of the remote tools included:
\* the content it assigns, or the exception that leaves it. env: "local" for a
\* tool without remote requests, "unconfigured" when no bearer token was resolved,
\* else the answer of the data API.
ToolBody(toolCall, env) ==
    CASE toolCall.name = "get_about_info" ->
            [threw |-> FALSE, content |-> <<"aboutMeContent">>]
      [] toolCall.name = "get_photos_info" ->
            [threw |-> FALSE, content |-> <<"photosContent">>]
      [] toolCall.name = "get_snowboarding_data" ->
            IF toolCall.input = "missing"
            THEN [threw |-> TRUE, content |-> <<"Cannot destructure property 'season'">>]
            ELSE [threw |-> FALSE, content |-> <<"Snowboarding data:">>]
      [] toolCall.name = "get_biking_data" ->
            [threw |-> FALSE,
             content |-> CASE toolCall.input = "missing" -> <<"Error fetching biking data: ">>
                           [] env = "unconfigured" -> <<"Strava API is not configured.">>
                           [] env = "ok" -> <<"Last bike ride:">>
                           [] OTHER -> <<"Error fetching biking data: ">>]
      [] toolCall.name = "get_books_data" ->
            [threw |-> FALSE, content |-> <<"Book reading data would come from Hardcover API.">>]
      [] toolCall.name = "get_music_data" ->
            [threw |-> FALSE,
             content |-> CASE toolCall.input = "missing" -> <<"Error fetching music data: ">>
                           [] env = "unconfigured" -> <<"Spotify API is not configured.">>
                           [] env = "ok" -> <<"Recently played tracks:">>
                           [] OTHER -> <<"Error fetching music data: ">>]
      [] OTHER ->
            [threw |-> FALSE, content |-> <<"Unknown tool requested.">>]

\* Mutant: the switch is not wrapped in a try block.
ToolTry_NoCatch(toolCall, env) == ToolBody(toolCall, env)

\* try { switch ... } catch (error) { toolResult = `Error: ${error.message}` }
ToolTry(toolCall, env) ==
    LET body == ToolBody(toolCall, env)
    IN  IF body.threw
        THEN [threw |-> FALSE, content |-> <<"Error: ">> \o body.content]
        ELSE body

\* Mutant: the loop is left one tool call early.
LoopDone_OneEarly(k, n) == k >= n - 1
\* The for...of loop over toolCalls has run its last iteration.
LoopDone(k, n) == k = n

\* Mutant: the result blocks are numbered by position instead of carrying the ids.
ToolResultBlocks_ByPosition(tr) ==
    [i \in DOMAIN tr |->
        [type |-> "tool_result", tool_use_id |-> <<1, i>>, content |-> tr[i].content,
         is_error |-> FALSE]]
\* toolResults.map(tr => ({ type: 'tool_result', tool_use_id, content, is_error: false })):
\* the content of the user message that closes the follow-up request.
ToolResultBlocks(tr) ==
    [i \in DOMAIN tr |->
        [type |-> "tool_result", tool_use_id |-> tr[i].tool_use_id, content |-> tr[i].content,
         is_error |-> FALSE]]

\* ------------------------------------------------------------------ follow-up processing
\* finalContent as derived from the follow-up response
FollowUpContent(content) ==
    IF content = <<>> THEN Fallback
    ELSE LET t == FindText(content)
         IN  IF t # 0 /\ Truthy(content[t].text) /\ trim(content[t].text) # <<>>
             THEN content[t].text
             ELSE LET a == FindAnyText(content)
                  IN  IF a # 0 THEN content[a].text ELSE Fallback

\* finalContent when the first response holds no tool call
DirectContent(content) ==
    IF content[1].type = "text" THEN content[1].text ELSE Fallback

\* ------------------------------------------------------------------ conversation history
\* The window of ChatPanel: `.slice(-10)`.
Window == 10
\* A conversation message: its role and its content (the number of the message in
\* the conversation stands for its text). The log of the ChatPanel opens with the
\* assistant's greeting.
Message(i) == [role |-> IF i % 2 = 1 THEN "assistant" ELSE "user", content |-> <<"text", i>>]
Conversation(from, to) == [i \in 1..(to - from + 1) |-> Message(from + i - 1)]
\* Array.prototype.slice(-n): the last n elements, all of them when there are fewer.
Last(seq, n) == SubSeq(seq, max(1, Len(seq) - n + 1), Len(seq))
\* msg => ({ role: msg.sender, content: msg.text }) / msg => ({ role, content })
RoleAndContent(seq) == [i \in DOMAIN seq |-> [role |-> seq[i].role, content |-> seq[i].content]]
\* The body ChatPanel.sendMessageToAPI posts when the log holds `log` and the user
\* sends `userMessage`.
ClientBody(log, userMessage) ==
    [messages |-> RoleAndContent(Last(Append(log, userMessage), Window)),
     conversationHistory |-> RoleAndContent(Last(log, Window))]
\* const allMessages = [...conversationHistory, ...messages]
AllMessages(body) == body.conversationHistory \o body.messages
\* `messages` of the first LLM call
FirstCallMessages(all) == RoleAndContent(all)
\* `messages` of the follow-up call: the same, the assistant's tool_use turn and the
\* user turn holding the tool results.
FollowUpMessages(all) ==
    RoleAndContent(all) \o <<[role |-> "assistant", content |-> <<"response.content", 0>>],
                             [role |-> "user", content |-> <<"tool_result", 0>>]>>
NoBody == [messages |-> <<>>, conversationHistory |-> <<>>]
NoChat == [stage |-> "none", log |-> <<>>, body |-> NoBody, first |-> <<>>, followUp |-> <<>>]

\* ChatPanel.sendMessageToAPI: the user's message is appended and the body posted.
SendMessageToAPI ==
    /\ chat.stage = "client"
    /\ LET userMessage == [role |-> "user", content |-> <<"text", Len(chat.log) + 1>>]
       IN  chat' = [chat EXCEPT !.stage = "posted", !.body = ClientBody(chat.log, userMessage)]
    /\ UNCHANGED <<retryVars, pc, req, useStreaming, response, followUpResponse, toolResults,
                   planningInfo, finalContent, wire, caught, llm, call, provider, snow>>
\* The handler combines the two arrays of the body and passes them to the first call.
CombineMessages ==
    /\ chat.stage = "posted"
    /\ chat' = [chat EXCEPT !.stage = "first", !.first = FirstCallMessages(AllMessages(chat.body))]
    /\ UNCHANGED <<retryVars, pc, req, useStreaming, response, followUpResponse, toolResults,
                   planningInfo, finalContent, wire, caught, llm, call, provider, snow>>
\* After a tool round the handler passes them again, with two more turns.
FollowUpCall ==
    /\ chat.stage = "first"
    /\ chat' = [chat EXCEPT !.stage = "followUp",
                            !.followUp = FollowUpMessages(AllMessages(chat.body))]
    /\ UNCHANGED <<retryVars, pc, req, useStreaming, response, followUpResponse, toolResults,
                   planningInfo, finalContent, wire, caught, llm, call, provider, snow>>

\* ------------------------------------------------------------------ the handler
\* A request asks for streaming by ?stream=true, by its Accept header, or not at all.
Requests == {r \in [method : {"POST", "GET", "OPTIONS"}, stream : BOOLEAN, accept : BOOLEAN,
                    body : {"ok", "missing"}, apiKey : BOOLEAN] : ~(r.stream /\ r.accept)}
\* TypeError of `const { messages, ... } = req.body` when there is no body
DestructureError ==
    [status |-> NoStatus, code |-> "none", msg |-> {"destructure"}, typeError |-> TRUE]
\* An exception leaving the try block of one tool call
ToolError ==
    [status |-> NoStatus, code |-> "none", msg |-> {"tool"}, typeError |-> FALSE]

\* From the call of the handler to its first await (the first LLM call in flight)
\* or to its return.
HandlerEntry ==
    /\ pc = "entry"
    /\ UNCHANGED <<req, response, followUpResponse, toolResults, planningInfo, finalContent, call, provider, chat, snow>>
    /\ IF req.method = "OPTIONS"
       THEN /\ wire' = resStatusEnd(wire, 200)
            /\ pc' = "done"
            /\ UNCHANGED <<useStreaming, caught, llm, retryVars>>
       ELSE IF req.method # "POST"
       THEN /\ wire' = resJson(wire, 405, MethodNotAllowed)
            /\ pc' = "done"
            /\ UNCHANGED <<useStreaming, caught, llm, retryVars>>
       ELSE /\ useStreaming' = (req.stream \/ req.accept)
            /\ IF req.body = "missing"
               THEN /\ caught' = DestructureError
                    /\ wire' = OuterCatch(wire, useStreaming', DestructureError)
                    /\ pc' = "done"
                    /\ UNCHANGED <<llm, retryVars>>
               ELSE IF ~req.apiKey
               THEN /\ wire' = IF useStreaming'
                               THEN resEnd(sendSSEEvent(wire, "error", KeyMissing))
                               ELSE resJson(wire, 500, KeyMissing)
                    /\ pc' = "done"
                    /\ UNCHANGED <<caught, llm, retryVars>>
               ELSE /\ RetryStart(OrchestratorPolicy)
                    /\ llm' = [llm EXCEPT !.first = @ + 1]
                    /\ pc' = "firstCall"
                    /\ UNCHANGED <<wire, caught>>

\* The first LLM call resolved: empty check, planning, and either the direct answer
\* (delivered at once) or the start of the tool round.
FirstCallReturns ==
    /\ pc = "firstCall" /\ rpc = "returned"
    /\ response' = result
    /\ RetryRelease
    /\ UNCHANGED <<req, useStreaming, followUpResponse, toolResults, llm, call, provider, chat, snow>>
    /\ LET plan == ExtractPlanning(result)
           planned == EmitPlanning(wire, useStreaming, plan)
       IN  IF result = <<>>
           THEN /\ wire' = IF useStreaming
                           THEN resEnd(sendSSEEvent(wire, "error", EmptyResponse))
                           ELSE resJson(wire, 500, EmptyResponse)
                /\ pc' = "done"
                /\ UNCHANGED <<planningInfo, finalContent, caught>>
           ELSE IF ToolCallsOf(result) = <<>>
           THEN /\ planningInfo' = plan
                /\ pc' = "done"
                /\ \E g \in EnsureContent(DirectContent(result)) :
                      /\ finalContent' = g.content
                      /\ IF g.threw
                         THEN /\ caught' = GuardReferenceError
                              /\ wire' = OuterCatch(planned, useStreaming, GuardReferenceError)
                         ELSE /\ wire' = Deliver(planned, useStreaming, g.content, <<>>, plan)
                              /\ UNCHANGED caught
           ELSE /\ planningInfo' = plan
                /\ wire' = planned
                /\ pc' = "tools"
                /\ UNCHANGED <<finalContent, caught>>

\* The first LLM call rejected (retries exhausted or not retryable).
FirstCallThrows ==
    /\ pc = "firstCall" /\ rpc = "threw"
    /\ caught' = lastError
    /\ wire' = FirstCallCatch(wire, useStreaming, lastError)
    /\ pc' = "done"
    /\ RetryRelease
    /\ UNCHANGED <<req, useStreaming, response, followUpResponse, toolResults, planningInfo,
                   finalContent, llm, call, provider, chat, snow>>

\* The rest of one iteration of `for (const toolCall of toolCalls)` once the case of
\* the switch has run: the result is pushed, and after the last iteration the
\* follow-up call is issued. An exception that left the try block of the tool call
\* would reach the outer catch of the handler.
FinishTool ==
    LET toolCall == ToolCallsOf(response)[Len(toolResults) + 1]
        r == ToolTry(toolCall, call.env)
        k == Len(toolResults) + 1
        n == Len(ToolCallsOf(response))
    IN  /\ pc = "toolDone"
        /\ call' = NoCall
        /\ UNCHANGED <<req, useStreaming, response, followUpResponse, planningInfo, finalContent,
                       provider, chat, snow>>
        /\ IF r.threw
           THEN /\ caught' = ToolError
                /\ wire' = OuterCatch(wire, useStreaming, ToolError)
                /\ pc' = "done"
                /\ UNCHANGED <<toolResults, llm, retryVars>>
           ELSE /\ toolResults' = Append(toolResults,
                         [tool_use_id |-> toolCall.id, content |-> r.content])
                /\ UNCHANGED <<wire, caught>>
                /\ IF LoopDone(k, n)
                   THEN /\ RetryStart(OrchestratorPolicy)
                        /\ llm' = [llm EXCEPT !.followUp = @ + 1,
                                              !.sent = ToolResultBlocks(toolResults')]
                        /\ pc' = "followUp"
                   ELSE /\ pc' = "tools"
                        /\ UNCHANGED <<llm, retryVars>>

\* A remote request of the tool call in progress goes out and the handler awaits it.
AwaitRemote(where, cred, requests) ==
    /\ pc' = where
    /\ call' = [cred |-> cred, net |-> requests, env |-> "none"]
    /\ UNCHANGED <<req, useStreaming, response, followUpResponse, toolResults, planningInfo,
                   finalContent, wire, caught, llm, provider, chat, snow, retryVars>>

\* The case of the switch has run in the environment env, with process.env holding
\* cred for the tool and after the remote requests `requests`.
CaseDone(cred, requests, env) ==
    /\ pc' = "toolDone"
    /\ call' = [cred |-> cred, net |-> requests, env |-> env]
    /\ UNCHANGED <<req, useStreaming, response, followUpResponse, toolResults, planningInfo,
                   finalContent, wire, caught, llm, provider, chat, snow, retryVars>>

\* The next iteration of the loop starts: a tool without remote requests runs to its
\* result; a remote tool reads its input and process.env and either has no bearer
\* token (result: not configured), or posts to the token endpoint, or calls the
\* data API with the static token.
DispatchTool ==
    /\ pc = "tools"
    /\ LET toolCall == ToolCallsOf(response)[Len(toolResults) + 1]
       IN  \E cred \in CredentialsOf(toolCall.name) :
              IF toolCall.name \in RemoteTools /\ toolCall.input # "missing"
              THEN LET token == ResolveToken(toolCall.name, cred)
                   IN  CASE token = "static" ->
                                AwaitRemote("toolAwait", cred, <<ApiRequest("static")>>)
                         [] token = "exchange" ->
                                AwaitRemote("tokenAwait", cred, <<TokenRequest>>)
                         [] OTHER -> CaseDone(cred, <<>>, "unconfigured")
              ELSE CaseDone(cred, <<>>, "local")

\* The token endpoint answered: with a token the data API is called, otherwise the
\* refresh returns null and the tool reports that it is not configured.
TokenEndpointAnswers ==
    /\ pc = "tokenAwait"
    /\ \E answer \in TokenAnswers :
          IF answer = "token"
          THEN AwaitRemote("toolAwait", call.cred, Append(call.net, ApiRequest("refreshed")))
          ELSE CaseDone(call.cred, call.net, "unconfigured")

\* The data API answered (or the request failed): the tool's result.
DataApiAnswers ==
    /\ pc = "toolAwait"
    /\ \E answer \in ApiAnswers : CaseDone(call.cred, call.net, answer)

\* Mutant: tool calls of the follow-up response start another round.
FollowUpReturns_MultiHop ==
    /\ pc = "followUp" /\ rpc = "returned"
    /\ followUpResponse' = result
    /\ RetryRelease
    /\ UNCHANGED <<req, useStreaming, planningInfo, llm, call, provider, chat, snow>>
    /\ IF ToolCallsOf(result) # <<>>
       THEN /\ response' = result
            /\ toolResults' = <<>>
            /\ pc' = "tools"
            /\ UNCHANGED <<finalContent, wire, caught>>
       ELSE /\ pc' = "done"
            /\ UNCHANGED <<response, toolResults>>
            /\ \E g \in EnsureContent(FollowUpContent(result)) :
                  /\ finalContent' = g.content
                  /\ IF g.threw
                     THEN /\ caught' = GuardReferenceError
                          /\ wire' = OuterCatch(wire, useStreaming, GuardReferenceError)
                     ELSE /\ wire' = Deliver(wire, useStreaming, g.content, toolResults,
                                             planningInfo)
                          /\ UNCHANGED caught

\* The follow-up call resolved: its text is the answer, which is delivered (or the
\* guard throws, to the outer catch).
FollowUpReturns ==
    /\ pc = "followUp" /\ rpc = "returned"
    /\ followUpResponse' = result
    /\ pc' = "done"
    /\ RetryRelease
    /\ UNCHANGED <<req, useStreaming, response, toolResults, planningInfo, llm, call, provider, chat, snow>>
    /\ \E g \in EnsureContent(FollowUpContent(result)) :
          /\ finalContent' = g.content
          /\ IF g.threw
             THEN /\ caught' = GuardReferenceError
                  /\ wire' = OuterCatch(wire, useStreaming, GuardReferenceError)
             ELSE /\ wire' = Deliver(wire, useStreaming, g.content, toolResults, planningInfo)
                  /\ UNCHANGED caught

\* The follow-up call rejected.
FollowUpThrows ==
    /\ pc = "followUp" /\ rpc = "threw"
    /\ caught' = lastError
    /\ wire' = FollowUpCatch(wire, useStreaming, lastError)
    /\ pc' = "done"
    /\ RetryRelease
    /\ UNCHANGED <<req, useStreaming, response, followUpResponse, toolResults, planningInfo,
                   finalContent, llm, call, provider, chat, snow>>

\* ------------------------------------------------------------------ snowboarding data
\* Strings that the case converts or compares are sequences of characters.
Digits == {"0", "1", "2", "3", "4", "5", "6", "7", "8", "9"}
DigitValue(c) ==
    CASE c = "0" -> 0 [] c = "1" -> 1 [] c = "2" -> 2 [] c = "3" -> 3 [] c = "4" -> 4
      [] c = "5" -> 5 [] c = "6" -> 6 [] c = "7" -> 7 [] c = "8" -> 8 [] c = "9" -> 9
DigitChar(d) == CHOOSE c \in Digits : DigitValue(c) = d
\* UTF-16 code unit of a character, the key of the default sort().
CharCode(c) ==
    CASE c \in Digits -> 48 + DigitValue(c)
      [] c = "'" -> 39
      [] c = "-" -> 45
      [] c = "a" -> 97
      [] c = "l" -> 108
\* parseInt of a run of digits.
RECURSIVE parseInt(_)
parseInt(ds) ==
    IF ds = <<>> THEN 0
    ELSE 10 * parseInt(SubSeq(ds, 1, Len(ds) - 1)) + DigitValue(ds[Len(ds)])
\* A number as a template literal prints it.
RECURSIVE NumberToString(_)
NumberToString(n) ==
    IF n < 10 THEN <<DigitChar(n)>>
    ELSE NumberToString(n \div 10) \o <<DigitChar(n % 10)>>
\* The end of the run of digits that starts at position i of s.
RECURSIVE RunEnd(_, _)
RunEnd(s, i) == IF i < Len(s) /\ s[i + 1] \in Digits THEN RunEnd(s, i + 1) ELSE i
\* season.match(/(\d+)-'(\d+)/): the leftmost match, both groups greedy.
SeasonMatch(season) ==
    LET starts == {i \in DOMAIN season :
                      /\ season[i] \in Digits
                      /\ LET j == RunEnd(season, i)
                         IN  /\ j + 3 <= Len(season)
                             /\ season[j + 1] = "-"
                             /\ season[j + 2] = "'"
                             /\ season[j + 3] \in Digits}
    IN  IF starts = {} THEN [found |-> FALSE, start |-> <<>>, end |-> <<>>]
        ELSE LET i == CHOOSE a \in starts : \A b \in starts : a <= b
                 j == RunEnd(season, i)
             IN  [found |-> TRUE,
                  start |-> SubSeq(season, i, j),
                  end |-> SubSeq(season, j + 3, RunEnd(season, j + 3))]
\* "Normalize season format": `20${parseInt(match[1])}-${parseInt(match[2])}`
NormalizeSeason(season) ==
    LET match == SeasonMatch(season)
    IN  IF (\E i \in DOMAIN season : season[i] = "'") /\ match.found
        THEN <<"2", "0">> \o NumberToString(parseInt(match.start)) \o <<"-">>
                 \o NumberToString(parseInt(match.end))
        ELSE season

\* One date of the data object: its columns (season and count, in the order the
\* keys were created) and its `location` property.
NoLocation == ""
SetColumn(cols, season, days) ==
    IF \E k \in DOMAIN cols : cols[k].season = season
    THEN [k \in DOMAIN cols |-> IF cols[k].season = season
                                THEN [season |-> season, days |-> days] ELSE cols[k]]
    ELSE Append(cols, [season |-> season, days |-> days])
\* data[date][normalizedSeason] = days; if (location) data[date]['location'] = location
PutRow(data, row) ==
    LET season == NormalizeSeason(row.season)
        loc(old) == IF row.location # "" THEN row.location ELSE old
    IN  IF \E k \in DOMAIN data : data[k].date = row.date
        THEN [k \in DOMAIN data |->
                 IF data[k].date = row.date
                 THEN [date |-> row.date,
                       cols |-> SetColumn(data[k].cols, season, row.days),
                       location |-> loc(data[k].location)]
                 ELSE data[k]]
        ELSE Append(data, [date |-> row.date,
                           cols |-> SetColumn(<<>>, season, row.days),
                           location |-> loc(NoLocation)])
RECURSIVE DataOf(_, _)
DataOf(file, n) == IF n = 0 THEN <<>> ELSE PutRow(DataOf(file, n - 1), file[n])
\* parseSnowboardingData: the data object keyed by date (keys in creation order)
\* and the list of entries, one per row.
parseSnowboardingData(file) ==
    [data |-> DataOf(file, Len(file)),
     entries |-> [i \in DOMAIN file |->
                     [date |-> file[i].date, location |-> file[i].location,
                      season |-> NormalizeSeason(file[i].season), days |-> file[i].days]]]
\* data[s] of one date: 0 stands for a missing column.
Cell(d, s) ==
    IF \E k \in DOMAIN d.cols : d.cols[k].season = s
    THEN d.cols[CHOOSE k \in DOMAIN d.cols : d.cols[k].season = s].days
    ELSE 0
\* Set of the elements of a sequence.
Elements(q) == {q[i] : i \in DOMAIN q}
RECURSIVE AddNew(_, _)
AddNew(seen, items) ==
    IF items = <<>> THEN seen
    ELSE AddNew(IF Head(items) \in Elements(seen) THEN seen ELSE Append(seen, Head(items)),
                Tail(items))
\* "Get all seasons from data": every key of every date other than 'location', in
\* the order a Set keeps them (first insertion).
RECURSIVE AllSeasons(_, _)
AllSeasons(data, n) ==
    IF n = 0 THEN <<>>
    ELSE AddNew(AllSeasons(data, n - 1),
                [k \in DOMAIN data[n].cols |-> data[n].cols[k].season])
\* The order of the default sort(): by UTF-16 code units.
RECURSIVE LexLess(_, _)
LexLess(a, b) ==
    IF a = <<>> THEN b # <<>>
    ELSE IF b = <<>> THEN FALSE
    ELSE IF Head(a) # Head(b) THEN CharCode(Head(a)) < CharCode(Head(b))
    ELSE LexLess(Tail(a), Tail(b))
\* Array.from(allSeasons).sort()
RECURSIVE sort(_)
sort(S) ==
    IF S = {} THEN <<>>
    ELSE LET m == CHOOSE x \in S : \A y \in S \ {x} : LexLess(x, y)
         IN  <<m>> \o sort(S \ {m})
reverse(q) == [i \in DOMAIN q |-> q[Len(q) + 1 - i]]
\* Array.from(allSeasons).sort().reverse()
sortedSeasons(allSeasons) == reverse(sort(Elements(allSeasons)))

\* The season a caller names for every season.
AllLabel == <<"a", "l", "l">>
\* "Determine which season to query (default to latest if not specified)"
TargetSeason(season, allSeasons) ==
    IF Truthy(season) THEN season
    ELSE IF allSeasons = <<>> THEN Undefined
    ELSE sortedSeasons(allSeasons)[1]
\* The dates of the data object that have a column for season s.
WithSeason(data, s) ==
    LET has(d) == Cell(d, s) # 0
    IN  SelectSeq(data, has)
\* metric total_days / progress: one line per season that has a date.
RECURSIVE TotalDays(_, _)
TotalDays(data, seasons) ==
    IF seasons = <<>> THEN <<>>
    ELSE LET s == Head(seasons)
             entries == WithSeason(data, s)
             lastEntry == entries[Len(entries)]
         IN  (IF entries # <<>>
              THEN <<[kind |-> "days", season |-> s, days |-> Cell(lastEntry, s),
                      location |-> IF lastEntry.location # "" THEN lastEntry.location
                                   ELSE "Unknown"]>>
              ELSE <<>>) \o TotalDays(data, Tail(seasons))
\* metric comparison: the two greatest seasons, or the data object serialized.
Comparison(data, allSeasons) ==
    LET sorted == sortedSeasons(allSeasons)
        lastDays(s) == LET entries == WithSeason(data, s)
                       IN  IF entries = <<>> THEN 0 ELSE Cell(entries[Len(entries)], s)
    IN  IF Len(sorted) >= 2
        THEN [json |-> FALSE,
              lines |-> <<[kind |-> "season", season |-> sorted[1], days |-> lastDays(sorted[1])],
                          [kind |-> "season", season |-> sorted[2], days |-> lastDays(sorted[2])]>>]
        ELSE [json |-> TRUE, lines |-> <<[kind |-> "JSON.stringify", data |-> data]>>]
\* locationCount: the locations of the entries and their counts, keys in the
\* order of first occurrence.
RECURSIVE locationCount(_)
locationCount(entries) ==
    IF entries = <<>> THEN <<>>
    ELSE LET before == locationCount(SubSeq(entries, 1, Len(entries) - 1))
             loc == entries[Len(entries)].location
         IN  IF \E k \in DOMAIN before : before[k].location = loc
             THEN [k \in DOMAIN before |->
                      IF before[k].location = loc
                      THEN [location |-> loc, count |-> before[k].count + 1]
                      ELSE before[k]]
             ELSE Append(before, [location |-> loc, count |-> 1])
\* Mutant: among equal counts the location met last comes first.
sortedLocations_LastFirst(counts) ==
    LET before(i) == {j \in DOMAIN counts :
                         \/ counts[j].count > counts[i].count
                         \/ counts[j].count = counts[i].count /\ j > i}
    IN  [r \in DOMAIN counts |->
            counts[CHOOSE i \in DOMAIN counts : Cardinality(before(i)) = r - 1]]
\* Object.entries(locationCount).sort((a, b) => b[1] - a[1]): by count, greatest
\* first, equal counts in the order of the keys (the sort is stable).
sortedLocations(counts) ==
    LET before(i) == {j \in DOMAIN counts :
                         \/ counts[j].count > counts[i].count
                         \/ counts[j].count = counts[i].count /\ j < i}
    IN  [r \in DOMAIN counts |->
            counts[CHOOSE i \in DOMAIN counts : Cardinality(before(i)) = r - 1]]
\* metric most_common_location
MostCommonLocation(seasonEntries) ==
    LET sorted == sortedLocations(locationCount(seasonEntries))
    IN  IF sorted = <<>> THEN <<[kind |-> "No location data available."]>>
        ELSE <<[kind |-> "Most common location", location |-> sorted[1].location,
                count |-> sorted[1].count]>>
             \o (IF Len(sorted) > 1
                 THEN <<[kind |-> "All locations:"]>>
                      \o [i \in DOMAIN sorted |->
                             [kind |-> "-", location |-> sorted[i].location,
                              count |-> sorted[i].count]]
                 ELSE <<>>)
\* The lines that list entries, under a heading.
EntryLines(heading, target, seasonEntries) ==
    <<[kind |-> heading, season |-> target]>>
    \o [i \in DOMAIN seasonEntries |-> [kind |-> "entry", entry |-> seasonEntries[i]]]
\* metric last_location / last_date
LastEntry(metric, seasonEntries) ==
    IF seasonEntries = <<>>
    THEN <<[kind |-> "No snowboarding data available for this season."]>>
    ELSE <<[kind |-> IF metric = "last_location" THEN "Last location"
                     ELSE "Last time snowboarding",
            entry |-> seasonEntries[Len(seasonEntries)]]>>
\* The values of `metric` the tool declares, and none.
Metrics == {"total_days", "progress", "comparison", "locations", "all",
            "most_common_location", "last_location", "last_date", "undefined"}
\* The content the branch of `metric` assigns. json: the content is
\* JSON.stringify of the data object; else it is the text made of `lines`.
MetricBranch(input, snowboardingData, allSeasons, targetSeason, seasonEntries) ==
    CASE input.metric \in {"total_days", "progress"} ->
            [json |-> FALSE,
             lines |-> TotalDays(snowboardingData,
                                 IF input.season = AllLabel THEN allSeasons
                                 ELSE <<targetSeason>>)]
      [] input.metric = "comparison" -> Comparison(snowboardingData, allSeasons)
      [] input.metric \in {"locations", "all"} ->
            [json |-> FALSE,
             lines |-> EntryLines("Snowboarding entries for", targetSeason, seasonEntries)]
      [] input.metric = "most_common_location" ->
            [json |-> FALSE, lines |-> MostCommonLocation(seasonEntries)]
      [] input.metric \in {"last_location", "last_date"} ->
            [json |-> FALSE, lines |-> LastEntry(input.metric, seasonEntries)]
      [] OTHER ->
            [json |-> FALSE,
             lines |-> EntryLines("Snowboarding data:", targetSeason, seasonEntries)]
\* allEntries.filter(e => e.season === targetSeason), or all of them
SeasonEntries(allEntries, targetSeason) ==
    LET inSeason(e) == e.season = targetSeason
    IN  IF targetSeason = AllLabel THEN allEntries ELSE SelectSeq(allEntries, inSeason)
\* content: result || 'No snowboarding data available.'
ContentOf(assigned) ==
    IF assigned.lines = <<>> THEN <<[kind |-> "No snowboarding data available."]>>
    ELSE assigned.lines
\* Season labels as the file holds them: "24-'25", "05-'06" and one already in
\* canonical form, "2023-24".
SeasonLabels == {<<"2", "4", "-", "'", "2", "5">>,
                 <<"0", "5", "-", "'", "0", "6">>,
                 <<"2", "0", "2", "3", "-", "2", "4">>}
Dates == {"Monday, November 18", "Friday, December 6"}
Locations == {"A", "B"}
\* Rows of snowboarding.csv below its header.
MaxRows == 3
\* Data files: up to MaxRows rows, any date, location and season label in each; the
\* count column holds the number of the row, which tells the rows apart.
DataFiles ==
    LET shapes == UNION {[1..n -> [date : Dates, location : Locations, season : SeasonLabels]] :
                         n \in 0..MaxRows}
    IN  {[i \in DOMAIN f |-> [date |-> f[i].date, location |-> f[i].location,
                              season |-> f[i].season, days |-> i]] : f \in shapes}
\* toolCall.input: no season, every season, or one season by its canonical label.
SnowInputs == [season : {Undefined, AllLabel, <<"2", "0", "2", "4", "-", "2", "5">>},
               metric : Metrics]
NoSnow == [file |-> <<>>, input |-> [season |-> Undefined, metric |-> "none"],
           target |-> Undefined, json |-> FALSE, lines |-> <<>>]

\* The case 'get_snowboarding_data' of the switch runs on the tool call's input:
\* its constants in the order the case declares them, then the branch of `metric`.
GetSnowboardingData ==
    /\ pc = "snowboarding"
    /\ \E parsed \in {parseSnowboardingData(snow.file)} :
       \E allSeasons \in {AllSeasons(parsed.data, Len(parsed.data))} :
       \E input \in SnowInputs :
       \E targetSeason \in {TargetSeason(input.season, allSeasons)} :
       \E seasonEntries \in {SeasonEntries(parsed.entries, targetSeason)} :
       \E assigned \in {MetricBranch(input, parsed.data, allSeasons, targetSeason,
                                     seasonEntries)} :
          snow' = [snow EXCEPT !.input = input, !.target = targetSeason,
                               !.json = assigned.json, !.lines = ContentOf(assigned)]
    /\ pc' = "snowboardingDone"
    /\ UNCHANGED <<req, useStreaming, response, followUpResponse, toolResults, planningInfo,
                   finalContent, wire, caught, llm, call, provider, chat, retryVars>>

\* ------------------------------------------------------------------ specifications
HandlerIdle ==
    /\ useStreaming = FALSE
    /\ response = <<>>
    /\ followUpResponse = <<>>
    /\ toolResults = <<>>
    /\ planningInfo = NoPlanning
    /\ finalContent = <<>>
    /\ wire = <<>>
    /\ caught = NoError
    /\ llm = [first |-> 0, followUp |-> 0, sent |-> <<>>]
    /\ call = NoCall

\* One request arrives at the handler.
Init ==
    /\ pc = "entry"
    /\ snow = NoSnow
    /\ req \in Requests
    /\ HandlerIdle
    /\ rpc = "idle"
    /\ opts = NoPolicy
    /\ attempt = 0
    /\ lastError = NoError
    /\ result = <<>>
    /\ rlog = <<>>
    /\ raised = NoError
    /\ delay = NoDelay
    /\ provider = "any"
    /\ chat = NoChat

Next ==
    \/ HandlerEntry
    \/ OperationSucceeds
    \/ OperationFails
    \/ SleepElapses
    \/ FirstCallReturns
    \/ FirstCallThrows
    \/ DispatchTool
    \/ TokenEndpointAnswers
    \/ DataApiAnswers
    \/ FinishTool
    \/ FollowUpReturns
    \/ FollowUpThrows

Spec == Init /\ [][Next]_vars

\* The scenario of an overloaded provider: each LLM call of the handler is answered
\* by an overload signal on its first OverloadedAttempts attempts and by a response
\* on the next. The catch blocks of the two calls are not among the steps: a state
\* where retryWithBackoff threw is left standing.
InitOverload ==
    /\ pc = "entry"
    /\ snow = NoSnow
    /\ req \in Requests
    /\ HandlerIdle
    /\ rpc = "idle"
    /\ opts = NoPolicy
    /\ attempt = 0
    /\ lastError = NoError
    /\ result = <<>>
    /\ rlog = <<>>
    /\ raised = NoError
    /\ delay = NoDelay
    /\ provider = "overloaded"
    /\ chat = NoChat

NextOverload ==
    \/ HandlerEntry
    \/ OperationSucceeds
    \/ OperationFails
    \/ SleepElapses
    \/ FirstCallReturns
    \/ DispatchTool
    \/ TokenEndpointAnswers
    \/ DataApiAnswers
    \/ FinishTool
    \/ FollowUpReturns

SpecOverload == InitOverload /\ [][NextOverload]_vars

\* Tool dispatch over the whole catalogue: a POST, buffered or streamed, whose first
\* LLM call is in flight with a provider that answers it by a round of tool calls.
InitTools ==
    /\ pc = "firstCall"
    /\ snow = NoSnow
    /\ req \in {r \in Requests : r.method = "POST" /\ r.body = "ok" /\ r.apiKey /\ ~r.accept}
    /\ useStreaming = req.stream
    /\ response = <<>>
    /\ followUpResponse = <<>>
    /\ toolResults = <<>>
    /\ planningInfo = NoPlanning
    /\ finalContent = <<>>
    /\ wire = <<>>
    /\ caught = NoError
    /\ llm = [first |-> 1, followUp |-> 0, sent |-> <<>>]
    /\ call = NoCall
    /\ rpc = "calling"
    /\ opts = OrchestratorPolicy
    /\ attempt = 0
    /\ lastError = NoError
    /\ result = <<>>
    /\ rlog = <<"call">>
    /\ raised = NoError
    /\ delay = NoDelay
    /\ provider = "reliable"
    /\ chat = NoChat

NextTools ==
    \/ OperationSucceeds
    \/ FirstCallReturns
    \/ DispatchTool
    \/ TokenEndpointAnswers
    \/ DataApiAnswers
    \/ FinishTool
    \/ FollowUpReturns

SpecTools == InitTools /\ [][NextTools]_vars

\* The conversation history on its way to the LLM: the ChatPanel posts a body made
\* of its log (of 1 to MaxSupplied messages), or another caller posts two arrays of
\* up to MaxSupplied messages each; the handler passes them on.
InitHistory ==
    /\ pc = "history"
    /\ snow = NoSnow
    /\ req = [method |-> "POST", stream |-> FALSE, accept |-> FALSE, body |-> "ok",
              apiKey |-> TRUE]
    /\ HandlerIdle
    /\ rpc = "idle"
    /\ opts = NoPolicy
    /\ attempt = 0
    /\ lastError = NoError
    /\ result = <<>>
    /\ rlog = <<>>
    /\ raised = NoError
    /\ delay = NoDelay
    /\ provider = "any"
    /\ \/ \E n \in 1..MaxSupplied :
             chat = [NoChat EXCEPT !.stage = "client", !.log = Conversation(1, n)]
       \/ \E h \in 0..MaxSupplied, m \in 0..MaxSupplied :
             chat = [NoChat EXCEPT !.stage = "posted",
                                   !.body = [messages |-> Conversation(h + 1, h + m),
                                             conversationHistory |-> Conversation(1, h)]]

NextHistory ==
    \/ SendMessageToAPI
    \/ CombineMessages
    \/ FollowUpCall

SpecHistory == InitHistory /\ [][NextHistory]_vars

\* retryWithBackoff on its own: called with any policy on an operation that may
\* fail with any error at any attempt.
InitRetry ==
    /\ pc = "standalone"
    /\ snow = NoSnow
    /\ req = [method |-> "none", stream |-> FALSE, accept |-> FALSE, body |-> "ok",
              apiKey |-> FALSE]
    /\ HandlerIdle
    /\ \E o \in Policies :
          /\ opts = o
          /\ rpc = IF LoopContinues(0, o) THEN "calling" ELSE "threw"
          /\ rlog = IF LoopContinues(0, o) THEN <<"call">> ELSE <<"throw">>
    /\ attempt = 0
    /\ lastError = NoError
    /\ result = <<>>
    /\ raised = NoError
    /\ delay = NoDelay
    /\ provider = "any"
    /\ chat = NoChat

NextRetry ==
    \/ OperationSucceeds
    \/ OperationFails
    \/ SleepElapses

SpecRetry == InitRetry /\ [][NextRetry]_vars

\* retryWithBackoff called with any options object.
InitRetryAny ==
    /\ pc = "standalone"
    /\ snow = NoSnow
    /\ req = [method |-> "none", stream |-> FALSE, accept |-> FALSE, body |-> "ok",
              apiKey |-> FALSE]
    /\ HandlerIdle
    /\ \E o \in AnyPolicies :
          /\ opts = o
          /\ rpc = IF LoopContinues(0, o) THEN "calling" ELSE "threw"
          /\ rlog = IF LoopContinues(0, o) THEN <<"call">> ELSE <<"throw">>
    /\ attempt = 0
    /\ lastError = NoError
    /\ result = <<>>
    /\ raised = NoError
    /\ delay = NoDelay
    /\ provider = "any"
    /\ chat = NoChat

SpecRetryAny == InitRetryAny /\ [][NextRetry]_vars

\* The snowboarding tool on its own: the case of the switch runs once on any data
\* file and any input.
InitSnow ==
    /\ pc = "snowboarding"
    /\ \E f \in DataFiles : snow = [NoSnow EXCEPT !.file = f]
    /\ req = [method |-> "POST", stream |-> FALSE, accept |-> FALSE, body |-> "ok",
              apiKey |-> TRUE]
    /\ HandlerIdle
    /\ rpc = "idle"
    /\ opts = NoPolicy
    /\ attempt = 0
    /\ lastError = NoError
    /\ result = <<>>
    /\ rlog = <<>>
    /\ raised = NoError
    /\ delay = NoDelay
    /\ provider = "reliable"
    /\ chat = NoChat

NextSnow ==
    \/ GetSnowboardingData

SpecSnow == InitSnow /\ [][NextSnow]_vars

\* Either entry point of the program: a request to the handler, or a call of
\* retryWithBackoff by another caller with a policy of its own.
SpecProgram == (Init \/ InitRetry) /\ [][Next]_vars

\* ------------------------------------------------------------------ views of a run
IsEventLine(e) == e.op = "write" /\ e.line = "event"
IsDataLine(e) == e.op = "write" /\ e.line = "data"
\* The frames written so far: the event names, and the payloads, in order.
FrameEvents == LET lines == SelectSeq(wire, IsEventLine)
               IN  [i \in DOMAIN lines |-> lines[i].event]
FramePayloads == LET lines == SelectSeq(wire, IsDataLine)
                 IN  [i \in DOMAIN lines |-> lines[i].payload]
FramesOf(kinds) == LET events == FrameEvents
                   IN  {i \in DOMAIN events : events[i] \in kinds}
JsonEntries == {i \in DOMAIN wire : wire[i].op = "json"}
EndEntries == {i \in DOMAIN wire : wire[i].op = "end"}
Visible(text) == text # Undefined /\ \E i \in DOMAIN text : text[i] # Space
StreamedRequest == req.method = "POST" /\ useStreaming
\* Success: HTTP 200 JSON, or a `response` frame.
SuccessOutcome ==
    \/ \E i \in JsonEntries : wire[i].status = 200
    \/ FramesOf({"response"}) # {}
\* The message a success outcome delivered.
DeliveredMessages ==
    LET payloads == FramePayloads
    IN  {wire[i].payload.message : i \in {j \in JsonEntries : wire[j].status = 200}}
            \cup {payloads[i].message : i \in FramesOf({"response"})}
ErrorLabels ==
    LET payloads == FramePayloads
    IN  {wire[i].payload.error : i \in {j \in JsonEntries : wire[j].status >= 400}}
            \cup {payloads[i].error : i \in FramesOf({"error"})}
FirstCallReturned ==
    /\ llm.first = 1
    /\ pc \in {"tools", "followUp", "done"}
    /\ ~(llm.followUp = 0 /\ caught \in Errors)
FollowUpReturned == pc = "done" /\ llm.followUp = 1 /\ caught \notin Errors
Blank(text) == text # Undefined /\ \A i \in DOMAIN text : text[i] = Space
OnlyBlankText(content) == \A i \in DOMAIN content : content[i].type = "text" /\ Blank(content[i].text)
\* Number of error outcomes written to `res`: JSON bodies with an error status and
\* `error` frames.
ErrorOutcomes ==
    Cardinality({i \in JsonEntries : wire[i].status >= 400}) + Cardinality(FramesOf({"error"}))
\* A case of the tool switch threw and the catch of the tool call made a result of it.
ToolHandlerThrew == \E i \in DOMAIN toolResults : toolResults[i].content[1] = "Error: "
CallsLogged == Cardinality({i \in DOMAIN rlog : rlog[i] = "call"})
SleepsLogged == Cardinality({i \in DOMAIN rlog : rlog[i] = "sleep"})

\* ------------------------------------------------------------------ claims

\* C1: every message delivered by a success outcome (HTTP 200 JSON, or a `response`
\* frame) holds at least one non-whitespace character.
C1_DeliveredTextVisible == \A m \in DeliveredMessages : Visible(m)
\* A follow-up whose only text is the empty string was answered with a success.
C1_Witness ==
    /\ FollowUpReturned
    /\ followUpResponse = <<TextBlock(<<>>)>>
    /\ SuccessOutcome

\* C2: at most one follow-up call is issued per invocation; only tool calls of the
\* first response are ever dispatched, and once the follow-up has resolved no LLM
\* call is in flight.
C2_SingleFollowUp ==
    /\ llm.followUp <= 1
    /\ Len(toolResults) <= Len(ToolCallsOf(response))
    /\ \A i \in DOMAIN toolResults : toolResults[i].tool_use_id[1] = 1
    /\ pc = "done" => rpc = "idle"
\* The follow-up itself asked for a tool and the turn ended with its text.
C2_Witness ==
    /\ FollowUpReturned
    /\ \E i \in DOMAIN followUpResponse : followUpResponse[i].type = "tool_use"
    /\ \E i \in DOMAIN followUpResponse : followUpResponse[i].type = "text"
    /\ SuccessOutcome

\* C3: a request handled in streamed mode ends with exactly one terminal frame
\* (`done` or `error`), which is the last frame, and the stream is ended after it.
C3_OneTerminalFrame ==
    (pc = "done" /\ StreamedRequest) =>
        /\ Cardinality(FramesOf({"done", "error"})) = 1
        /\ FrameEvents[Len(FrameEvents)] \in {"done", "error"}
        /\ wire[Len(wire)].op = "end"
        /\ JsonEntries = {}

\* C4: at most one `planning` frame is written, and it precedes every `response`,
\* `done` and `error` frame.
C4_PlanningFirst ==
    /\ Cardinality(FramesOf({"planning"})) <= 1
    /\ \A i \in FramesOf({"planning"}) :
          \A j \in FramesOf({"response", "done", "error"}) : i < j
\* A streamed turn wrote a planning frame and then its response.
C4_Witness ==
    /\ pc = "done"
    /\ FramesOf({"planning"}) # {}
    /\ FramesOf({"response"}) # {}

\* C5: a streamed success writes exactly one `response` frame, then `done`, then
\* ends the connection: nothing lies between them and nothing follows.
C5_ResponseDoneEnd ==
    FramesOf({"response"}) # {} =>
        LET n == Len(wire)
            f == Len(FrameEvents)
        IN  /\ Cardinality(FramesOf({"response"})) = 1
            /\ Cardinality(FramesOf({"done"})) = 1
            /\ FramesOf({"error"}) = {}
            /\ f >= 2 /\ FrameEvents[f - 1] = "response" /\ FrameEvents[f] = "done"
            /\ n >= 5 /\ EndEntries = {n} /\ JsonEntries = {}
            /\ IsDataLine(wire[n - 1]) /\ IsEventLine(wire[n - 2]) /\ wire[n - 2].event = "done"
            /\ IsDataLine(wire[n - 3]) /\ IsEventLine(wire[n - 4]) /\ wire[n - 4].event = "response"
\* A streamed turn with a tool round succeeded.
C5_Witness ==
    /\ pc = "done" /\ StreamedRequest
    /\ FollowUpReturned
    /\ FramesOf({"response"}) # {}

\* C6: one activation of retryWithBackoff invokes the operation at most
\* maxRetries + 1 times.
C6_AtMostBudgetPlusOne == CallsLogged <= opts.maxRetries + 1
\* A caller-supplied policy with budget 2 was used up: three invocations, then the throw.
C6_Witness ==
    /\ rpc = "threw"
    /\ opts = MergeOptions(2, "custom", DefaultDelays)
    /\ CallsLogged = 3

\* C7: under the default classification and under the handler's policy, a failure
\* with status 401 or 403 is followed by nothing but the throw of that very error
\* (no sleep, no further invocation); in the handler the turn then ends at once
\* with an error outcome and no further LLM call.
C7_AuthNeverRetried ==
    /\ opts.shouldRetry \in {"default", "orchestrator"} =>
          \A i \in DOMAIN rlog :
              rlog[i] = "fail_auth" =>
                  /\ Len(rlog) = i + 1
                  /\ rlog[i + 1] = "throw"
                  /\ rpc = "threw"
                  /\ lastError.status \in {401, 403}
    /\ caught.status \in {401, 403} =>
          /\ pc = "done" /\ rpc = "idle"
          /\ ErrorLabels # {} /\ ~SuccessOutcome
\* The default policy with three retries left gave up on a first 401.
C7_Witness ==
    /\ opts = MergeOptions(3, "default", DefaultDelays)
    /\ rlog = <<"call", "fail_auth", "throw">>
    /\ lastError.status = 401
\* The handler's follow-up call met a 403 and the turn ended with an error.
C7_WitnessHandler ==
    /\ pc = "done" /\ llm.followUp = 1
    /\ caught.status = 403

\* C8 (as claimed): an LLM call that fails with an overload signal (status 529, an
\* "overloaded" message, or any 5xx status) ends the turn in the "service
\* unavailable" outcome, every other failure in the generic internal-error outcome.
C8_OverloadOr5xxUnavailable ==
    (pc = "done" /\ caught \in Errors) =>
        IF \/ caught.status = 529
           \/ caught.status >= 500
           \/ "overloaded" \in caught.msg
           \/ "Overloaded" \in caught.msg
        THEN ErrorLabels = {"Service temporarily unavailable"}
        ELSE ErrorLabels = {"Internal server error"}
\* C8 (amended): the outcome is "service unavailable" exactly for status 529 or an
\* "overloaded"/"Overloaded" message; every other failure of an LLM call, the other
\* 5xx statuses included, ends in the generic internal-error outcome.
C8_OverloadUnavailable ==
    (pc = "done" /\ caught \in Errors) =>
        /\ ~SuccessOutcome
        /\ IF \/ caught.status = 529
              \/ "overloaded" \in caught.msg
              \/ "Overloaded" \in caught.msg
           THEN /\ ErrorLabels = {"Service temporarily unavailable"}
                /\ \/ \E i \in JsonEntries : wire[i].status = 503
                   \/ FramesOf({"error"}) # {}
           ELSE /\ ErrorLabels = {"Internal server error"}
                /\ \/ \E i \in JsonEntries : wire[i].status = 500
                   \/ FramesOf({"error"}) # {}
\* The follow-up call of a streamed turn ran out of retries on status 529.
C8_Witness ==
    /\ pc = "done" /\ StreamedRequest /\ llm.followUp = 1
    /\ caught.status = 529
    /\ ErrorLabels = {"Service temporarily unavailable"}
\* The first call ran out of retries on status 500: generic internal error.
C8_Witness500 ==
    /\ pc = "done" /\ llm.followUp = 0
    /\ caught.status = 500 /\ caught.msg = {}
    /\ ErrorLabels = {"Internal server error"}

\* C9: an empty or blank-text response of either LLM call ends the turn in a
\* success outcome carrying the fallback apology, not in an error outcome.
C9_BlankGivesFallback ==
    /\ (pc = "done" /\ FirstCallReturned /\ OnlyBlankText(response)) =>
          (SuccessOutcome /\ DeliveredMessages = {Fallback} /\ ErrorLabels = {})
    /\ (FollowUpReturned /\ OnlyBlankText(followUpResponse)) =>
          (SuccessOutcome /\ DeliveredMessages = {Fallback} /\ ErrorLabels = {})

\* C10: every dispatched tool call leaves one text result carrying its id, whatever
\* its handler did; the round runs to its last call, the follow-up call is then
\* issued, and no exception of a tool ends the turn.
C10_ToolFailureIsSoft ==
    /\ \A i \in DOMAIN toolResults :
          /\ toolResults[i].tool_use_id = ToolCallsOf(response)[i].id
          /\ toolResults[i].content # Undefined /\ toolResults[i].content # <<>>
    /\ caught # ToolError
    /\ pc = "tools" => (Len(toolResults) < Len(ToolCallsOf(response)) /\ wire \in {<<>>, EmitPlanning(<<>>, TRUE, planningInfo)})
    /\ (pc \in {"followUp", "done"} /\ ToolCallsOf(response) # <<>>) =>
          /\ Len(toolResults) = Len(ToolCallsOf(response))
          /\ llm.followUp = 1
\* A tool threw, the next one failed on HTTP, and the turn still succeeded.
C10_Witness ==
    /\ FollowUpReturned /\ SuccessOutcome
    /\ Len(toolResults) = 2
    /\ toolResults[1].content = <<"Error: ", "Cannot destructure property 'season'">>
    /\ toolResults[2].content = <<"Error fetching music data: ">>

\* C11: the follow-up call is issued only when every tool call of the round has
\* produced its result: while a call is unstarted or awaits a remote answer no
\* follow-up call exists, and once one exists no tool call is left or in progress.
C11_FollowUpAfterAllTools ==
    /\ pc \in {"tools", "tokenAwait", "toolAwait", "toolDone"} =>
          /\ llm.followUp = 0 /\ rpc = "idle"
          /\ Len(toolResults) < Len(ToolCallsOf(response))
    /\ pc \in {"tokenAwait", "toolAwait", "toolDone"} <=> call # NoCall
    /\ llm.followUp > 0 =>
          /\ Len(toolResults) = Len(ToolCallsOf(response))
          /\ call = NoCall
\* The follow-up is in flight after a round of two calls, the second of which had
\* to wait for the data API.
C11_Witness ==
    /\ pc = "followUp" /\ rpc = "calling"
    /\ Len(ToolCallsOf(response)) = 2
    /\ toolResults[2].content = <<"Recently played tracks:">>

\* C12: the tool_result blocks sent with the follow-up call match the tool_use
\* blocks of the first response one to one: as many, in the same order, each with
\* the id of its request, no id twice and none from elsewhere.
C12_ResultsMatchRequests ==
    llm.followUp > 0 =>
        LET calls == ToolCallsOf(response)
            ids == {calls[j].id : j \in DOMAIN calls}
        IN  /\ Len(llm.sent) = Len(calls)
            /\ \A i \in DOMAIN llm.sent :
                  /\ llm.sent[i].type = "tool_result"
                  /\ llm.sent[i].tool_use_id = calls[i].id
                  /\ llm.sent[i].tool_use_id \in ids
                  /\ llm.sent[i].content = toolResults[i].content
            /\ \A i, j \in DOMAIN llm.sent : i # j => llm.sent[i].tool_use_id # llm.sent[j].tool_use_id
\* A follow-up went out for a first response whose tool_use block comes after a
\* text block (the id differs from the position among the tool calls).
C12_Witness ==
    /\ llm.followUp = 1
    /\ response[1].type = "text" /\ response[2].type = "tool_use"
    /\ llm.sent[1].tool_use_id = <<1, 2>>

\* C13: the messages passed to an LLM call hold at most Window conversation
\* messages, whatever the caller supplied.
C13_AtMostTenMessages ==
    LET isText(m) == m.content[1] = "text"
    IN  /\ Len(SelectSeq(chat.first, isText)) <= Window
        /\ Len(SelectSeq(chat.followUp, isText)) <= Window

\* C14: when the budget is used up (every one of the maxRetries + 1 invocations
\* failed), the error retryWithBackoff throws is the very error the last invocation
\* raised: same status, code and message, hence the same classification.
C14_ThrowsTheOperationsError ==
    (rpc = "threw" /\ CallsLogged = opts.maxRetries + 1) =>
        /\ raised \in Errors
        /\ lastError = raised
        /\ IsOverloadedError(lastError) = IsOverloadedError(raised)
\* Three invocations under a budget of two all failed, the last with an overloaded
\* 529, and that error is what the caller gets.
C14_Witness ==
    /\ rpc = "threw"
    /\ opts.maxRetries = 2 /\ CallsLogged = 3 /\ SleepsLogged = 2
    /\ raised.status = 529
    /\ lastError.status = 529

\* C15: every delay slept between two attempts lies in [0, maxDelay * (1 + jitter)]
\* (delays in units of 1/DelayUnit ms, jitter in hundredths).
C15_DelayWithinBounds ==
    rpc = "sleeping" =>
        /\ 0 <= delay
        /\ delay <= opts.maxDelay * (100 + opts.jitter) * RandomSteps
\* A capped delay with positive jitter: slept longer than maxDelay.
C15_Witness ==
    /\ rpc = "sleeping"
    /\ opts.initialDelay * pow(opts.backoffMultiplier, attempt) > opts.maxDelay
    /\ delay > opts.maxDelay * DelayUnit
\* Full negative jitter: the delay is floored at zero although the cap is not.
C15_WitnessFloor ==
    /\ rpc = "sleeping"
    /\ opts.maxDelay > 0 /\ opts.jitter = 100
    /\ delay = 0

\* C16: with a provider that signals overload on the first two attempts of a call
\* and answers the third, retryWithBackoff never throws, the handler continues with
\* the response, no provider error and no 'Service temporarily unavailable' reaches
\* the client, and a response with visible text is delivered as a success outcome
\* with no error status, frame or text.
C16_OverloadThenSuccess ==
    provider = "overloaded" =>
        /\ rpc # "threw"
        /\ rpc = "sleeping" => IsOverloadedError(lastError) /\ attempt < OverloadedAttempts
        /\ rpc = "calling" => attempt <= OverloadedAttempts
        /\ caught \notin Errors
        /\ "Service temporarily unavailable" \notin ErrorLabels
        /\ (pc = "done" /\ llm.first = 1 /\ caught = NoError /\ ~SuccessOutcome) =>
              /\ response = <<>>
              /\ ErrorLabels = {"Empty response from Claude API"}
        /\ (pc = "done" /\ SuccessOutcome) => ErrorLabels = {}
\* A streamed turn: first call and follow-up call each answered at the third
\* attempt, the answer delivered.
C16_Witness ==
    /\ provider = "overloaded"
    /\ pc = "done" /\ useStreaming
    /\ llm.first = 1 /\ llm.followUp = 1
    /\ SuccessOutcome /\ ErrorLabels = {}
    /\ finalContent = <<Space, "Hello", Space>>
\* The third attempt of the first call is in flight after two overload signals.
C16_WitnessThirdAttempt ==
    /\ provider = "overloaded"
    /\ pc = "firstCall" /\ rpc = "calling" /\ attempt = 2
    /\ rlog = <<"call", "fail", "sleep", "call", "fail", "sleep", "call">>

\* C17 (as claimed): every exception raised while a POST is handled, the one of a
\* tool handler included, ends the turn in exactly one error outcome.
C17_EveryExceptionOneErrorOutcome ==
    (pc = "done" /\ (caught # NoError \/ ToolHandlerThrew)) =>
        /\ ErrorOutcomes = 1
        /\ ~SuccessOutcome
\* C17 (amended): an exception of the request body, of either LLM call or of the
\* response building reaches a catch block of the handler, ends the turn and is
\* answered by exactly one error outcome and no success outcome; an exception of a
\* tool handler is caught by the try block of its tool call and becomes the text of
\* that call's result, after which the turn goes on and, if nothing else throws,
\* ends in a success outcome. No exception leaves the handler unanswered.
C17_ExceptionsCaught ==
    /\ caught # NoError => pc = "done"
    /\ (pc = "done" /\ caught # NoError) =>
          /\ ErrorOutcomes = 1
          /\ ~SuccessOutcome
          /\ useStreaming /\ FramesOf({"error"}) # {} => wire[Len(wire)].op = "end"
    /\ ToolHandlerThrew =>
          pc \in {"tools", "tokenAwait", "toolAwait", "toolDone", "followUp", "done"}
    /\ (pc = "done" /\ caught = NoError /\ ToolHandlerThrew) =>
          /\ ErrorOutcomes = 0
          /\ SuccessOutcome
\* A streamed turn in which a tool handler threw (its result says so) and the
\* follow-up call then failed with a 500: one `error` frame closes the stream.
C17_Witness ==
    /\ pc = "done" /\ useStreaming
    /\ ToolHandlerThrew
    /\ caught.status = 500
    /\ ErrorOutcomes = 1 /\ FramesOf({"error"}) # {}
\* The request body could not be read: one JSON error.
C17_WitnessBody ==
    /\ pc = "done" /\ caught = DestructureError
    /\ llm.first = 0
    /\ ErrorOutcomes = 1

\* The tool call whose case has run or is awaiting a remote answer.
CurrentToolCall == ToolCallsOf(response)[Len(toolResults) + 1]
NotConfigured == {<<"Spotify API is not configured.">>, <<"Strava API is not configured.">>}

\* C18: when get_music_data is dispatched with neither SPOTIFY_ACCESS_TOKEN nor the
\* client id and secret set, no remote request is sent, the case does not throw and
\* its result is the 'not configured' text; a turn holding such a result has issued
\* the follow-up call and, the follow-up answer being visible text, ended in a
\* success outcome without any error outcome.
C18_UnconfiguredMusicIsSoft ==
    /\ (/\ pc = "toolDone"
        /\ CurrentToolCall.name = "get_music_data" /\ CurrentToolCall.input # "missing"
        /\ ~call.cred.accessToken /\ ~(call.cred.clientId /\ call.cred.clientSecret)) =>
          /\ call.net = <<>>
          /\ ToolBody(CurrentToolCall, call.env) =
                [threw |-> FALSE, content |-> <<"Spotify API is not configured.">>]
    /\ (\E i \in DOMAIN toolResults : toolResults[i].content \in NotConfigured) =>
          /\ pc \in {"tools", "tokenAwait", "toolAwait", "toolDone", "followUp", "done"}
          /\ caught \in {NoError, GuardReferenceError}
          /\ pc = "done" => llm.followUp = 1
          /\ (pc = "done" /\ Visible(FollowUpContent(followUpResponse))) =>
                SuccessOutcome /\ ErrorOutcomes = 0
\* A buffered turn: music asked for with no Spotify variable set, result 'not
\* configured', follow-up answered, 200 delivered.
C18_Witness ==
    /\ pc = "done" /\ ~useStreaming
    /\ Len(toolResults) = 1
    /\ response[1].name = "get_music_data"
    /\ toolResults[1].content = <<"Spotify API is not configured.">>
    /\ llm.followUp = 1
    /\ SuccessOutcome /\ ErrorOutcomes = 0
\* The case of get_music_data has just run with nothing set in process.env.
C18_WitnessDispatch ==
    /\ pc = "toolDone"
    /\ CurrentToolCall.name = "get_music_data" /\ CurrentToolCall.input = "object"
    /\ call = [cred |-> NoCredentials, net |-> <<>>, env |-> "unconfigured"]

C19_WitnessExchange ==
    /\ pc = "toolDone"
    /\ CurrentToolCall.name = "get_music_data"
    /\ ~call.cred.accessToken
    /\ call.net = <<TokenRequest, ApiRequest("refreshed")>>

\* C20: with HARDCOVER_API_TOKEN set, get_books_data queries the provider and its
\* result is not the 'configure the credentials' text.
C20_BooksQueryProvider ==
    (/\ pc = "toolDone"
     /\ CurrentToolCall.name = "get_books_data" /\ CurrentToolCall.input # "missing"
     /\ call.cred.accessToken) =>
        /\ call.net # <<>>
        /\ ToolTry(CurrentToolCall, call.env).content
              # <<"Book reading data would come from Hardcover API.">>

\* C29: a remote tool's result is the 'not configured' text only when neither the
\* static access token nor the full set of client id, client secret and refresh
\* token is set; after a failed token exchange the result is not that text.
C29_NotConfiguredMeansUnset ==
    (/\ pc = "toolDone"
     /\ CurrentToolCall.name \in RemoteTools /\ CurrentToolCall.input # "missing"
     /\ ToolTry(CurrentToolCall, call.env).content \in NotConfigured) =>
        /\ ~call.cred.accessToken
        /\ ~(call.cred.clientId /\ call.cred.clientSecret /\ call.cred.refreshToken)
        /\ TokenRequest \notin {call.net[i] : i \in DOMAIN call.net}

\* The failures the default classification is said to retry: connection reset,
\* timeout, DNS failure; status 429, 503 or any 5xx; the provider's overload signal
\* (status 529 or the word in the message).
Transient(error) ==
    \/ error.code \in {"ECONNRESET", "ETIMEDOUT", "ENOTFOUND"}
    \/ includes(error.msg, "timeout")
    \/ error.status = 429 \/ error.status >= 500
    \/ IsOverloadedError(error)

\* C25: under the default policy retryWithBackoff gives up with retries left only
\* on a failure that is not transient.
C25_DefaultRetriesTransient ==
    (/\ opts.shouldRetry = "default"
     /\ rpc = "threw"
     /\ attempt < opts.maxRetries) => ~Transient(raised)

\* C30: whatever options retryWithBackoff is called with, when it throws the
\* operation has been invoked at least once and the error thrown is one the
\* operation raised.
C30_InvokedBeforeThrow ==
    rpc = "threw" =>
        /\ CallsLogged >= 1
        /\ lastError \in Errors
        /\ lastError = raised

\* C26: in streamed mode, from the moment the tool round starts (no case of the
\* switch has run yet) a `planning` frame naming the tools of the round is on the
\* wire, and it is the only frame until the round is over.
C26_PlanningBeforeTools ==
    (useStreaming /\ pc \in {"tools", "tokenAwait", "toolAwait", "toolDone"}) =>
        /\ FrameEvents = <<"planning">>
        /\ FramePayloads[1].planning.present
        /\ FramePayloads[1].planning.tools =
               [i \in DOMAIN ToolCallsOf(response) |-> ToolCallsOf(response)[i].name]
\* A streamed turn about to dispatch its first tool call: the planning frame is out.
C26_Witness ==
    /\ useStreaming
    /\ pc = "tools" /\ toolResults = <<>>
    /\ FrameEvents = <<"planning">>
    /\ FramePayloads[1].planning.tools = <<"get_biking_data">>

\* A planning trace reached the client: a `planning` frame, or the `planning` field
\* of a buffered answer.
PlanningTrace ==
    \/ FramesOf({"planning"}) # {}
    \/ \E i \in JsonEntries : wire[i].status = 200 /\ wire[i].payload.planning.present
\* The first text block of the first response states a plan.
PlanStated ==
    LET t == FindText(response)
    IN  t # 0 /\ Truthy(response[t].text) /\ PlanningMatch(response[t].text)

\* C27 (as claimed): a planning trace is produced only when the first response
\* contains at least one tool call.
C27_PlanningOnlyWithTools == PlanningTrace => ToolCallsOf(response) # <<>>
\* C27 (amended): a planning trace is produced only when the first response
\* contains a tool call or, without tool calls, its first text block states a plan;
\* a first response with neither yields none, and a successful turn with tool calls
\* always carries one.
C27_PlanningWithToolsOrStatedPlan ==
    /\ PlanningTrace => (ToolCallsOf(response) # <<>> \/ PlanStated)
    /\ (SuccessOutcome /\ ToolCallsOf(response) # <<>>) => PlanningTrace
    /\ (SuccessOutcome /\ ToolCallsOf(response) = <<>> /\ PlanStated) => PlanningTrace
\* A buffered answer to a first response that is a planning statement and no tool
\* call: the `planning` field is set, with no tools.
C27_Witness ==
    /\ pc = "done" /\ ~useStreaming
    /\ response = <<TextBlock(<<PlanPhrase>>)>>
    /\ \E i \in JsonEntries : /\ wire[i].status = 200
                              /\ wire[i].payload.planning.present
                              /\ wire[i].payload.planning.tools = <<>>

\* ------------------------------------------------------------------ snowboarding claims
\* The case has run on the tool call.
SnowAnswered == pc = "snowboardingDone"
\* The rows of the file, by number, whose season is stored under label s.
RowsOfSeason(s) ==
    {i \in DOMAIN snow.file : s = AllLabel \/ NormalizeSeason(snow.file[i].season) = s}
\* A label of the form YY-'ZZ, and the canonical label 20YY-ZZ of a label.
IsShortLabel(l) ==
    /\ Len(l) = 6
    /\ {l[1], l[2], l[5], l[6]} \subseteq Digits
    /\ l[3] = "-" /\ l[4] = "'"
CanonicalLabel(l) ==
    IF IsShortLabel(l) THEN <<"2", "0", l[1], l[2], "-", l[5], l[6]>> ELSE l

\* C21: the content the snowboarding case assigns is text, never the serialized
\* data object, whatever the metric and the data.
C21_ContentIsText == SnowAnswered => ~snow.json

\* C22: every entry listed carries the canonical label 20YY-ZZ of its row's label
\* YY-'ZZ, both parts as written; a label without an apostrophe is kept as it is.
C22_LabelsCanonical ==
    SnowAnswered =>
        \A k \in DOMAIN snow.lines :
            snow.lines[k].kind = "entry" =>
                LET e == snow.lines[k].entry
                    label == snow.file[e.days].season
                IN  /\ IsShortLabel(label) =>
                           e.season = <<"2", "0", label[1], label[2], "-", label[5], label[6]>>
                    /\ (\A i \in DOMAIN label : label[i] # "'") => e.season = label

\* C23: with no season in the input and at least one season in the data, the
\* season queried is that of the rows whose canonical label is the
\* lexicographically greatest, the later season of two.
C23_DefaultsToLatestSeason ==
    (SnowAnswered /\ ~Truthy(snow.input.season) /\ snow.file # <<>>) =>
        \E i \in DOMAIN snow.file :
            /\ snow.target = NormalizeSeason(snow.file[i].season)
            /\ \A j \in DOMAIN snow.file :
                  ~LexLess(CanonicalLabel(snow.file[i].season),
                           CanonicalLabel(snow.file[j].season))

\* C24: for most_common_location the first line names a location of the target
\* season with the greatest number of entries and that number; of the locations
\* with as many entries it is the one met first in file order.
C24_MostCommonFirstMet ==
    (SnowAnswered /\ snow.input.metric = "most_common_location") =>
        LET rows == RowsOfSeason(snow.target)
            count(l) == Cardinality({i \in rows : snow.file[i].location = l})
            first(l) == CHOOSE i \in rows :
                            /\ snow.file[i].location = l
                            /\ \A j \in rows : snow.file[j].location = l => i <= j
            top == snow.lines[1]
        IN  IF rows = {} THEN top.kind = "No location data available."
            ELSE /\ top.kind = "Most common location"
                 /\ top.count = count(top.location)
                 /\ top.count >= 1
                 /\ \A l \in Locations \ {top.location} :
                       /\ count(l) <= top.count
                       /\ count(l) = top.count => first(top.location) < first(l)
\* Entries A, B, A of one season: A is reported with count 2.
C24_Witness ==
    /\ SnowAnswered /\ snow.input.metric = "most_common_location"
    /\ Len(snow.file) = 3
    /\ [i \in 1..3 |-> snow.file[i].location] = <<"A", "B", "A">>
    /\ RowsOfSeason(snow.target) = {1, 2, 3}
    /\ snow.lines[1] = [kind |-> "Most common location", location |-> "A", count |-> 2]
\* Entries B, A of one season: a tie, and B, met first, is reported.
C24_WitnessTie ==
    /\ SnowAnswered /\ snow.input.metric = "most_common_location"
    /\ Len(snow.file) = 2
    /\ [i \in 1..2 |-> snow.file[i].location] = <<"B", "A">>
    /\ RowsOfSeason(snow.target) = {1, 2}
    /\ snow.lines[1] = [kind |-> "Most common location", location |-> "B", count |-> 1]

\* C28: for total_days and progress every line reports, for its season, the count
\* of the season's last row in file order and the location of that same row.
C28_LastRowOfSeason ==
    (SnowAnswered /\ snow.input.metric \in {"total_days", "progress"}) =>
        \A k \in DOMAIN snow.lines :
            snow.lines[k].kind = "days" =>
                LET rows == RowsOfSeason(snow.lines[k].season)
                    last == CHOOSE i \in rows : \A j \in rows : j <= i
                IN  /\ snow.lines[k].days = snow.file[last].days
                    /\ snow.lines[k].location = snow.file[last].location

====
